---------------------------- MODULE Spec2Model ----------------------------
(***************************************************************************)
(* A model of rocket_functions.py (AeroVECTOR): the Airfoil, Fin and       *)
(* Rocket classes and the module-level list  fin = [Fin(), Fin()].         *)
(*                                                                         *)
(* Numbers.  TLC has 32-bit integers only, so the floats of the source are *)
(* fixed-point integers:                                                   *)
(*   - dimensionless values, angles (rad), velocities, times and thrusts   *)
(*     are scaled by S = 10^4 (one unit is 1e-4);                          *)
(*   - lengths are counted in LU = 1e-5 length units (the smallest         *)
(*     coordinate of the source, zero_fin[0][0], is 1 LU), areas in        *)
(*     AU = 10 LU^2 = 1e-9, volumes in units of AU * 100 LU = 1e-12,       *)
(*     fourth powers of lengths in 1e-8;                                   *)
(*   - velocities in 0.01, dynamic viscosity in 1e-9, the skin friction    *)
(*     coefficient in 1e-6, Reynolds numbers as plain integers.            *)
(* Results are truncated towards zero.                                     *)
(* numpy's non-finite results (nan, inf) are one absorbing value NaN.  A   *)
(* division of Python floats by zero raises ZeroDivisionError, a division  *)
(* of numpy floats by zero gives NaN; the model keeps the two apart.       *)
(*                                                                         *)
(* Exceptions.  A method is an operator from the object's state to a       *)
(* record [self, exc, ...]: self is the state the method leaves behind     *)
(* (also when it raises, with the assignments made before the raise), exc  *)
(* is the name of the exception that escapes, "" when none does.           *)
(***************************************************************************)
EXTENDS Integers, Sequences, FiniteSets, TLC

S == 10^4
ONE_LU == 10^5            \* the length 1.0 in LU
ONE_AU == 10^9            \* the area 1.0 in AU
LU2_PER_AU == S \div 1000 \* 10 LU^2 in one AU
NaN == 0 - 2000000000
PiS == 31416            \* np.pi at scale S
HalfPiS == PiS \div 2

Abs(a) == IF a < 0 THEN 0 - a ELSE a
Sgn(a) == IF a < 0 THEN 0 - 1 ELSE 1
Max2(a, b) == IF a >= b THEN a ELSE b
Min2(a, b) == IF a <= b THEN a ELSE b
IsNaN(a) == a = NaN

(* floor(a*b/c) for a, b >= 0, c > 0 without an intermediate overflow:     *)
(* the pair <<quotient, remainder>>, by doubling on the bits of b.         *)
QRNorm(q2, r2, c) == <<q2 + (r2 \div c), r2 % c>>

QRDigit(h, a, digit, c, radix) ==
    QRNorm(radix * h[1] + digit * (a \div c),
           radix * h[2] + digit * (a % c), c)

RECURSIVE MulDivQR(_, _, _, _)
MulDivQR(a, b, c, radix) ==
    IF b = 0 THEN <<0, 0>>
    ELSE QRDigit(MulDivQR(a, b \div radix, c, radix), a, b % radix, c, radix)

(* a*b/c truncated towards zero, any signs, c # 0.                         *)
MulDivAbs(sg, x, y, z) ==
    IF x < 46340 /\ y < 46340
    THEN sg * ((x * y) \div z)
    ELSE sg * MulDivQR(Max2(x, y), Min2(x, y), z,
                       IF z <= 67108864 THEN 16 ELSE 2)[1]

MulDiv(a, b, c) == MulDivAbs(Sgn(a) * Sgn(b) * Sgn(c), Abs(a), Abs(b), Abs(c))

(* Float arithmetic on scale-S values, NaN absorbing.                      *)
FAdd(a, b) == IF IsNaN(a) \/ IsNaN(b) THEN NaN ELSE a + b
FSub(a, b) == IF IsNaN(a) \/ IsNaN(b) THEN NaN ELSE a - b
FNeg(a) == IF IsNaN(a) THEN NaN ELSE 0 - a
FMul(a, b) == IF IsNaN(a) \/ IsNaN(b) THEN NaN ELSE MulDiv(a, b, S)
(* numpy division: x/0 is nan or inf (a RuntimeWarning, no exception).     *)
NpDiv(a, b) == IF IsNaN(a) \/ IsNaN(b) \/ b = 0 THEN NaN ELSE MulDiv(a, S, b)
(* float comparisons: every comparison with nan is False.                  *)
FLt(a, b) == ~IsNaN(a) /\ ~IsNaN(b) /\ a < b
FNe(a, b) == IsNaN(a) \/ IsNaN(b) \/ a # b

(* Integer square root (Newton), and np.sqrt on scale S.                   *)
RECURSIVE SqrtIter(_, _)
SqrtNext(n, g, g2) == IF g2 >= g THEN g ELSE SqrtIter(n, g2)
SqrtIter(n, g) == SqrtNext(n, g, (g + (n \div g)) \div 2)

ISqrt(n) == IF n <= 0 THEN 0 ELSE SqrtIter(n, Max2(1, Min2(n, 46340)))

NpSqrt(a) ==
    IF IsNaN(a) \/ a < 0 THEN NaN
    ELSE IF a < 200000 THEN ISqrt(a * S) ELSE 100 * ISqrt(a)

(* np.sin / np.cos on scale S: range reduction to [0, pi/2] and the Taylor *)
(* polynomial x - x^3/6 + x^5/120 - x^7/5040 + x^9/362880, rounded.        *)
SinSum(x, t3, t5, t7, t9) ==
    Min2(S, x - (((t3 * 840) - (t5 * 42) + t7 - (t9 \div 72) + 2520) \div 5040))
SinT9(x, x2, t3, t5, t7) ==
    SinSum(x, t3, t5, t7, ((t7 \div 100) * x2) \div (S \div 100))
SinT7(x, x2, t3, t5) == SinT9(x, x2, t3, t5, ((t5 \div 10) * x2) \div (S \div 10))
SinT5(x, x2, t3) == SinT7(x, x2, t3, (t3 * x2) \div S)
SinT3(x, x2) == SinT5(x, x2, (x2 * x) \div S)
SinPoly(x) == SinT3(x, (x * x) \div S)

RECURSIVE NpSin(_)
NpSin(x) ==
    IF IsNaN(x) THEN NaN
    ELSE IF x < 0 THEN 0 - NpSin(0 - x)
    ELSE IF x >= 2 * PiS THEN NpSin(x % (2 * PiS))
    ELSE IF x > PiS THEN 0 - NpSin(x - PiS)
    ELSE IF x > HalfPiS THEN SinPoly(PiS - x)
    ELSE SinPoly(x)

NpCos(x) == IF IsNaN(x) THEN NaN ELSE NpSin(Abs(x) + HalfPiS)

(* np.arctan on scale S: (pi/4)t - t(|t|-1)(0.2447+0.0663|t|) on [-1, 1]   *)
(* (error below 2e-3), pi/2 - arctan(1/t) outside.                         *)
AtanAbs(a) ==
    MulDiv(7854, a, S) + MulDiv(MulDiv(a, S - a, S), 2447 + MulDiv(663, a, S), S)
AtanPoly(t) == Sgn(t) * AtanAbs(Abs(t))

NpArctan(t) ==
    IF IsNaN(t) THEN NaN
    ELSE IF Abs(t) <= S THEN AtanPoly(t)
    ELSE Sgn(t) * (HalfPiS - AtanPoly(MulDiv(S, S, Abs(t))))

(* np.log of the ratio n/d (n, d > 0) on scale S: halve to [1, 2), then    *)
(* ln m = 2(z + z^3/3 + z^5/5), z = (m-1)/(m+1).                           *)
Ln2S == (69315 * S) \div 100000    \* ln 2 at scale S

LnZ3(z, z2, z3) == 2 * (z + (z3 \div 3) + (((z3 * z2) \div S) \div 5))
LnZ2(z, z2) == LnZ3(z, z2, (z2 * z) \div S)
LnZ(z) == LnZ2(z, (z * z) \div S)

RECURSIVE LnQ(_, _)
LnQ(n, d) ==
    IF n < d THEN 0 - LnQ(d, n)
    ELSE IF n >= 2 * d THEN
        (IF d < 50000000 /\ n >= 16 * d THEN 4 * Ln2S + LnQ(n, 16 * d)
         ELSE IF d < 500000000 THEN Ln2S + LnQ(n, 2 * d)
         ELSE Ln2S + LnQ(n \div 2, d))
    ELSE LnZ(MulDiv(n - d, S, n + d))

(* exp on scale S, for np.power(x, p) = exp(p ln x): y = k ln2 + r.        *)
ExpR3(r, r2, r3) == S + r + (r2 \div 2) + (r3 \div 6) + (((r3 * r) \div S) \div 24)
ExpR2(r, r2) == ExpR3(r, r2, (r2 * r) \div S)
ExpPoly(r) == ExpR2(r, (r * r) \div S)

RECURSIVE ExpS(_)
ExpS(y) ==
    IF y < 0 THEN MulDiv(S, S, ExpS(0 - y))
    ELSE IF y >= Ln2S THEN 2 * ExpS(y - Ln2S)
    ELSE ExpPoly(y)

(* np.interp(x, xp, fp) on sequences of scale-S numbers (xp increasing):   *)
(* fp[1] left of the table, fp[n] right of it, else linear between the two *)
(* samples around x.                                                       *)
InterpIndex(x, xp) ==
    CHOOSE j \in 1..Len(xp) :
        /\ xp[j] <= x
        /\ \A k \in 1..Len(xp) : xp[k] <= x => k <= j

InterpAt(x, xp, fp, j) ==
    IF j = Len(xp) THEN fp[j]
    ELSE IF xp[j] = x THEN fp[j]
    ELSE fp[j] + MulDiv(fp[j + 1] - fp[j], x - xp[j], xp[j + 1] - xp[j])

NpInterp(x, xp, fp) ==
    IF x > xp[Len(xp)] THEN fp[Len(fp)]
    ELSE IF x < xp[1] THEN fp[1]
    ELSE InterpAt(x, xp, fp, InterpIndex(x, xp))

----------------------------------------------------------------------------
(* class Airfoil *)

aoa_cl ==
    <<0, 839, 1621, 2589, 4498, 6246, 7767, 9458, 11321, 13190, 15950,
      18469, 20253, 22515, 24606, 26915, 28348, 29881, 31052, 31500>>
cl_list ==
    <<0, 5364, 7818, 7000, 8818, 10727, 11000, 10000, 7545, 4455, 0,
      0 - 4182, 0 - 6818, 0 - 9000, 0 - 9818, 0 - 7909, 0 - 6727, 0 - 8000,
      0 - 4091, 0>>
aoa_cl_modified ==
    <<0, 1366, 7250, 9138, 10950, 15708, 20239, 24166, 29377, 31038>>
cl_list_modified ==
    <<0, 7739, 11043, 10261, 8087, 0, 0 - 7217, 0 - 9913, 0 - 8087, 0 - 87>>
aoa_cd ==
    <<0, 1852, 3983, 7644, 11099, 13510, 15468, 17918, 19601, 21704, 23599,
      24862, 26688, 28196, 29528, 30404, 31350, 31416>>
cd_list ==
    <<10, 1132, 3267, 10540, 15608, 17624, 18075, 17606, 15891, 13457,
      10581, 8183, 4785, 2629, 1393, 556, 120, 9>>

(* Airfoil.__init__, with the three option flags as set by the caller      *)
(* after construction (the constructor's defaults are F, F, T).            *)
Airfoil_init(use_2pi, use_windtunel, use_windtunnel_modified) ==
    [use_2pi |-> use_2pi,
     use_windtunel |-> use_windtunel,
     use_windtunnel_modified |-> use_windtunnel_modified,
     sign |-> 1, x |-> 0, cl |-> 0, cd |-> 0, cn |-> 0, ca |-> 0,
     cn_alpha |-> 0]

Airfoil_new == Airfoil_init(FALSE, FALSE, TRUE)

(* Variant: the sign of the angle is dropped.                              *)
Airfoil_sign_correction_none(aoa) == 1
Airfoil_sign_correction(aoa) == IF aoa >= 0 THEN 1 ELSE 0 - 1

(* _calculate_cn_ca: with neither wind-tunnel flag set no branch binds     *)
(* aoa_list_interp, and line 114 raises UnboundLocalError.                 *)
(* Lines 116-120: cn and ca from cl, cd and the sine and cosine of x.      *)
Airfoil_cn_ca_set(self, cl, cd, sin_x, cos_x) ==
    [self EXCEPT !.cl = cl, !.cd = cd,
                 !.cn = self.sign * (FMul(cl, cos_x) + FMul(cd, sin_x)),
                 !.ca = (0 - FMul(cl, sin_x)) + FMul(cd, cos_x)]

(* Lines 108-115: the table the flags select, and the two interpolations.  *)
Airfoil_cn_ca_interp(self) ==
    IF ~(self.use_windtunel \/ self.use_windtunnel_modified)
    THEN [self |-> self, exc |-> "UnboundLocalError"]
    ELSE [self |-> Airfoil_cn_ca_set(
                       self,
                       NpInterp(self.x,
                                IF self.use_windtunel THEN aoa_cl
                                ELSE aoa_cl_modified,
                                IF self.use_windtunel THEN cl_list
                                ELSE cl_list_modified),
                       NpInterp(self.x, aoa_cd, cd_list),
                       NpSin(self.x), NpCos(self.x)),
          exc |-> ""]

Airfoil_calculate_cn_ca(self, aoa) ==
    Airfoil_cn_ca_interp([self EXCEPT !.sign = Airfoil_sign_correction(aoa),
                                      !.x = Abs(aoa)])

Airfoil_calculate_cn_alpha(self, aoa) ==
    [self EXCEPT !.cn_alpha = IF self.use_2pi THEN 2 * PiS
                              ELSE NpDiv(self.cn, aoa)]

(* get_aero_coef: [self, exc, cn, ca, cn_alpha].                           *)
Airfoil_return(self) ==
    [self |-> self, exc |-> "", cn |-> self.cn, ca |-> self.ca,
     cn_alpha |-> self.cn_alpha]

Airfoil_get_aero_coef_from(r1, aoa) ==
    IF r1.exc # ""
    THEN [self |-> r1.self, exc |-> r1.exc, cn |-> 0, ca |-> 0, cn_alpha |-> 0]
    ELSE Airfoil_return(Airfoil_calculate_cn_alpha(r1.self, aoa))

Airfoil_get_aero_coef(self, aoa) ==
    Airfoil_get_aero_coef_from(Airfoil_calculate_cn_ca(self, aoa), aoa)

----------------------------------------------------------------------------
(* class Fin.  dim is the list of four points <<x, z>> in LU; <<>> stands  *)
(* for the constructor's placeholder  self._dim = 0.                       *)

Fin_init ==
    [dim |-> <<>>, flat_plate |-> Airfoil_new, fin_attached |-> TRUE,
     c_root |-> ONE_LU, c_tip |-> ONE_LU, x_tail |-> ONE_LU,
     wingspan |-> ONE_LU, area |-> ONE_AU, y_mac |-> ONE_LU,
     x_force_fin |-> ONE_LU, aspect_ratio |-> S, cp_total |-> ONE_LU,
     sb_angle |-> S, beta |-> S, mach |-> 0, cn0 |-> 0, ca |-> 0,
     cn_alpha_0 |-> 0, cn_alpha |-> 0]

Fin_calculate_real_dimension(self) ==
    [self EXCEPT !.c_root = self.dim[4][1] - self.dim[1][1],
                 !.c_tip = self.dim[3][1] - self.dim[2][1],
                 !.x_tail = self.dim[2][1] - self.dim[1][1],
                 !.wingspan = self.dim[2][2] - self.dim[1][2]]

Fin_calculate_area(self) ==
    [self EXCEPT !.area = MulDiv(self.c_root + self.c_tip, self.wingspan,
                                 2 * LU2_PER_AU)]

(* _calculate_mac_xf_ar: y_mac is assigned only when k2 # 0 and            *)
(* aspect_ratio only when area # 0; the 0.625 factor multiplies whatever   *)
(* aspect_ratio then holds.                                                *)
Fin_mac_xf_ar_set(self, k1, k2, k3, ar1) ==
    [self EXCEPT
        !.y_mac = IF k2 # 0 THEN MulDiv(self.wingspan, k1, 3 * k2)
                  ELSE self.y_mac,
        !.x_force_fin = IF k2 # 0
                        THEN MulDiv(self.x_tail, k1, 3 * k2) + MulDiv(k3, 1, 6 * k2)
                        ELSE 0,
        !.aspect_ratio = IF self.fin_attached THEN ar1
                         ELSE MulDiv(ar1, 625, 1000)]

Fin_calculate_mac_xf_ar(self) ==
    Fin_mac_xf_ar_set(
        self,
        self.c_root + 2 * self.c_tip,
        self.c_root + self.c_tip,
        MulDiv(self.c_root, self.c_root, 1) + MulDiv(self.c_tip, self.c_tip, 1)
            + MulDiv(self.c_root, self.c_tip, 1),
        IF self.area # 0
        THEN MulDiv(self.wingspan * 200, self.wingspan * 10, self.area)
        ELSE self.aspect_ratio)

Fin_calculate_force_application_point(self) ==
    [self EXCEPT !.cp_total = self.dim[1][1] + self.x_force_fin]

(* _calculate_sweepback_angle: the quotient is one of Python floats, so a  *)
(* zero wingspan raises ZeroDivisionError.                                 *)
Fin_calculate_sweepback_angle(self) ==
    IF self.wingspan = 0
    THEN [self |-> self, exc |-> "ZeroDivisionError"]
    ELSE [self |-> [self EXCEPT !.sb_angle =
                        NpArctan(MulDiv(4 * (self.dim[2][1] - self.dim[1][1])
                                            + self.c_tip - self.c_root,
                                        S, 4 * self.wingspan))],
          exc |-> ""]

(* Fin.update(l, fin_attached): [self, exc].                               *)
Fin_update(self, l, fin_attached) ==
    Fin_calculate_sweepback_angle(
        Fin_calculate_force_application_point(
            Fin_calculate_mac_xf_ar(
                Fin_calculate_area(
                    Fin_calculate_real_dimension(
                        [self EXCEPT !.fin_attached = fin_attached,
                                     !.dim = l])))))

Fin_cp(self) == self.cp_total

(* _correct_cna_diederich; every operand is a numpy float, so a zero       *)
(* divisor gives a non-finite value, not an exception.                     *)
Diederich_slope(self, cos_sbe, k1, k2, k4) ==
    [self EXCEPT !.cn_alpha =
        FMul(FMul(FMul(k1, NpDiv(k2, FAdd(FMul(k2, k4), 2 * S))),
                  self.cn_alpha_0), cos_sbe)]

Diederich_k(self, eff_factor, cos_sbe) ==
    Diederich_slope(
        self, cos_sbe,
        NpDiv(S, self.beta),
        NpDiv(FMul(self.aspect_ratio, self.beta), FMul(eff_factor, cos_sbe)),
        NpSqrt(FAdd(S, NpDiv(FMul(4 * S, FMul(FMul(eff_factor, eff_factor),
                                              FMul(cos_sbe, cos_sbe))),
                             FMul(FMul(self.aspect_ratio, self.aspect_ratio),
                                  FMul(self.beta, self.beta))))))

Diederich_cos_sbe(self, cos_sb) ==
    FMul(NpDiv(self.beta,
               NpSqrt(FSub(S, FMul(FMul(self.mach, self.mach),
                                   FMul(cos_sb, cos_sb))))),
         cos_sb)

Fin_correct_cna_diederich(self) ==
    Diederich_k(self, NpDiv(self.cn_alpha_0, 2 * PiS),
                Diederich_cos_sbe(self, NpCos(self.sb_angle)))

(* Fin.calculate_cn_alpha(aoa, beta, mach): [self, exc, cn_alpha].         *)
Fin_return(self) == [self |-> self, exc |-> "", cn_alpha |-> self.cn_alpha]

Fin_cn_alpha_from(self, r) ==
    IF r.exc # ""
    THEN [self |-> [self EXCEPT !.flat_plate = r.self], exc |-> r.exc,
          cn_alpha |-> 0]
    ELSE Fin_return(Fin_correct_cna_diederich(
             [self EXCEPT !.flat_plate = r.self, !.cn0 = r.cn, !.ca = r.ca,
                          !.cn_alpha_0 = r.cn_alpha]))

Fin_calculate_cn_alpha(self, aoa, beta, mach) ==
    Fin_cn_alpha_from([self EXCEPT !.beta = beta, !.mach = mach],
                      Airfoil_get_aero_coef(self.flat_plate, aoa))

----------------------------------------------------------------------------
(* The module-level list  fin = [Fin(), Fin()]  shared by every Rocket.    *)
fin_init == <<Fin_init, Fin_init>>

(* class Rocket.  Fields that the constructor sets to a number and a later *)
(* method to a list are tagged: PyNum(x) or PyList(seq).  Unset stands for *)
(* an attribute that no method has created yet.                            *)
PyNum(x) == [kind |-> "num", val |-> x]
PyList(s) == [kind |-> "list", val |-> s]
PyLen(v) == IF v.kind = "list" THEN Len(v.val) ELSE 0 - 1
Unset == 0 - 2000000001
RECURSIVE Zeros(_)
Zeros(n) == IF n <= 0 THEN <<>> ELSE <<0>> \o Zeros(n - 1)

aoa_list_ca ==
    <<0 - 31416, 0 - 28449, 0 - 19199, 0 - 15708, 0 - 12217, 0 - 2967, 0,
      2967, 12217, 15708, 19199, 28449, 31416>>
ca_scale ==
    <<0 - 10000, 0 - 13000, 0 - 978, 0, 978, 13000, 10000, 13000, 978, 0,
      0 - 978, 0 - 13000, 0 - 10000>>

Rocket_init ==
    [thrust |-> 0, cn |-> 0, sign_corr |-> 0 - 1, xcp |-> 0, ca |-> 0,
     cp |-> 0, xcg |-> ONE_LU, q_damp |-> 0, motor |-> <<<<>>, <<>>>>,
     is_in_the_pad_flag |-> TRUE,
     component_cn |-> Zeros(1), component_cn_alpha |-> Zeros(1),
     component_cm |-> Zeros(1), station_cross_area |-> Zeros(0),
     component_plan_area |-> Zeros(1), component_volume |-> Zeros(1),
     component_centroid |-> Zeros(1),
     ogive |-> FALSE, reynolds_crit |-> 1, relative_rough |-> 15,
     use_fins |-> FALSE, fins_attached |-> PyNum(TRUE),
     use_fins_control |-> FALSE, rocket_dim |-> <<>>,
     max_diam |-> ONE_LU, length |-> ONE_LU, diameter |-> ONE_LU,
     fineness |-> S, area_ref |-> ONE_AU, plan_area |-> ONE_AU,
     area_wet_component |-> PyNum(ONE_AU), area_wet_body |-> ONE_AU,
     avg_rad_aft |-> S, avg_rad_fore |-> S,
     v_loc_tot |-> <<1000, 0>>, mach |-> 10, beta |-> S,
     actuator_angle |-> 0, aoa_ctrl_fin |-> 0,
     cn_alpha_og |-> PyNum(62800), cn_alpha_fin_control |-> PyNum(2 * S),
     cn_alpha_control_normal |-> 2 * S, cn_alpha_fin |-> PyNum(2 * S),
     cn_alpha_axial |-> 0, reynolds |-> 100, Cf |-> 10^6,
     cd_pressure_component |-> PyNum(S), base_drag |-> S,
     cd0_friction |-> S, pressure_cd |-> S, base_drag_cd |-> S, cd0 |-> S,
     q |-> Unset, q_damp_body |-> Unset, q_damp_fin |-> Unset]

(* A method of Rocket maps a context [self, fin, exc, trace] to a context: *)
(* self is the Rocket, fin the module-level list, exc the pending          *)
(* exception, trace the angles handed to Airfoil.get_aero_coef so far.     *)
Ctx(self, fin) == [self |-> self, fin |-> fin, exc |-> "", trace |-> <<>>]
Raise(c, e) == [c EXCEPT !.exc = e]
SetSelf(c, s) == [c EXCEPT !.self = s]

Rocket_initialize(self, n) ==
    [self EXCEPT !.is_in_the_pad_flag = TRUE,
                 !.component_cn = Zeros(n - 1),
                 !.component_cn_alpha = Zeros(n - 1),
                 !.component_cm = Zeros(n - 1),
                 !.station_cross_area = Zeros(n),
                 !.component_plan_area = Zeros(n - 1),
                 !.component_volume = Zeros(n - 1),
                 !.component_centroid = Zeros(n - 1)]

RECURSIVE MaxDiamFrom(_, _, _)
MaxDiamFrom(dim, i, d) ==
    IF i > Len(dim) THEN d
    ELSE MaxDiamFrom(dim, i + 1, IF dim[i][2] > d THEN dim[i][2] ELSE d)

Rocket_maximum_diameter(self) == MaxDiamFrom(self.rocket_dim, 1, 0)

RECURSIVE SumSeq(_, _)
SumSeq(s, i) == IF i > Len(s) THEN 0 ELSE s[i] + SumSeq(s, i + 1)

Rocket_compute_total_rocket_plan_area(self) ==
    [self EXCEPT !.plan_area = SumSeq(self.component_plan_area, 1)]

(* pi (r1+r2) sqrt((r2-r1)^2 + l^2) with r = d/2, in AU.                   *)
WetAreaOf(l, dd, dsum) ==
    MulDiv(MulDiv(dsum, 2 * ISqrt(MulDiv(dd, dd, 16) + MulDiv(l, l, 4)),
                  2 * LU2_PER_AU), PiS, S)

WetArea(dim, i) ==
    WetAreaOf(dim[i + 1][1] - dim[i][1], dim[i + 1][2] - dim[i][2],
              dim[i][2] + dim[i + 1][2])

(* Variant: only the total is kept, as a one-entry list.                   *)
Rocket_wet_area_set_total(self, comp) ==
    [self EXCEPT !.area_wet_component = PyList(<<SumSeq(comp, 1)>>),
                 !.area_wet_body = SumSeq(comp, 1)]

Rocket_wet_area_set(self, comp) ==
    [self EXCEPT !.area_wet_component = PyList(comp),
                 !.area_wet_body = SumSeq(comp, 1)]

RECURSIVE WetAreaList(_, _)
WetAreaList(dim, i) ==
    IF i > Len(dim) - 1 THEN <<>>
    ELSE <<WetArea(dim, i)>> \o WetAreaList(dim, i + 1)

Rocket_calculate_wet_area_body(self) ==
    Rocket_wet_area_set(self, WetAreaList(self.rocket_dim, 1))

(* pi (d/2)^2 in AU.                                                       *)
CircleArea(d) == MulDiv(MulDiv(d, d, 4 * LU2_PER_AU), PiS, S)

(* One pass of the loop of _update_rocket_dim, lines 465-485, for segment  *)
(* i (1-based) of length l between the diameters d1 and d2.  The centroid  *)
(* quotient is one of Python floats and raises ZeroDivisionError when      *)
(* r1 + r2 = 0, after the areas and the volume of the segment are stored.  *)
Rocket_dim_store(self, i, l, d1, d2) ==
    [self EXCEPT
        !.station_cross_area[i + 1] = CircleArea(d2),
        !.component_plan_area[i] = MulDiv(l, d1 + d2, 2 * LU2_PER_AU),
        !.component_volume[i] =
            MulDiv(MulDiv(MulDiv(d1, d1, 40) + MulDiv(d2, d2, 40)
                          + MulDiv(d1, d2, 40), PiS, S), l, 300)]

Rocket_dim_centroid(self, i, l, d1, d2) ==
    [self EXCEPT !.component_centroid[i] = MulDiv(l, 2 * d2 + d1, 3 * (d1 + d2))]

Rocket_dim_ogive(self, l0, d) ==
    IF self.ogive = TRUE
    THEN [self EXCEPT !.component_centroid[1] = MulDiv(4625, l0, S),
                      !.component_plan_area[1] = MulDiv(2 * l0, d, 3 * LU2_PER_AU)]
    ELSE self

Rocket_dim_segment(self, i, l, d1, d2) ==
    Rocket_dim_ogive(Rocket_dim_centroid(Rocket_dim_store(self, i, l, d1, d2),
                                         i, l, d1, d2),
                     self.rocket_dim[2][1] - self.rocket_dim[1][1],
                     self.rocket_dim[2][2])

RECURSIVE Rocket_update_rocket_dim_loop(_, _)
Rocket_dim_pass(c, i, l, d1, d2) ==
    IF d1 + d2 = 0
    THEN Raise(SetSelf(c, Rocket_dim_store(c.self, i, l, d1, d2)),
               "ZeroDivisionError")
    ELSE Rocket_update_rocket_dim_loop(
             SetSelf(c, Rocket_dim_segment(c.self, i, l, d1, d2)), i + 1)

Rocket_update_rocket_dim_loop(c, i) ==
    IF i > Len(c.self.rocket_dim) - 1 THEN c
    ELSE Rocket_dim_pass(c, i,
                         c.self.rocket_dim[i + 1][1] - c.self.rocket_dim[i][1],
                         c.self.rocket_dim[i][2], c.self.rocket_dim[i + 1][2])

(* _update_rocket_dim(l), lines 451-464.  rocket_dim[-1] and rocket_dim[1] *)
(* raise IndexError on a list of fewer than two stations, length /         *)
(* max_diam raises ZeroDivisionError when no diameter is positive.         *)
Rocket_dim_max_diam(self) ==
    [self EXCEPT !.max_diam = Rocket_maximum_diameter(self)]

Rocket_dim_area_ref(self) ==
    [self EXCEPT !.area_ref = CircleArea(self.max_diam)]

Rocket_dim_areas(self) ==
    Rocket_dim_area_ref(Rocket_calculate_wet_area_body(
        Rocket_compute_total_rocket_plan_area(
            [self EXCEPT !.fineness = MulDiv(self.length, S, self.max_diam)])))

Rocket_dim_fineness(c, s4) ==
    IF s4.max_diam = 0 THEN Raise(SetSelf(c, s4), "ZeroDivisionError")
    ELSE Rocket_update_rocket_dim_loop(SetSelf(c, Rocket_dim_areas(s4)), 1)

Rocket_dim_diameter(c, s3, l) ==
    IF Len(l) < 2 THEN Raise(SetSelf(c, s3), "IndexError")
    ELSE Rocket_dim_fineness(c, [s3 EXCEPT !.diameter = l[2][2]])

Rocket_dim_length(c, s2, l) ==
    IF Len(l) = 0 THEN Raise(SetSelf(c, s2), "IndexError")
    ELSE Rocket_dim_diameter(c, [s2 EXCEPT !.length = l[Len(l)][1]], l)

Rocket_update_rocket_dim(c, l) ==
    IF c.exc # "" THEN c
    ELSE Rocket_dim_length(
             c,
             Rocket_dim_max_diam(
                 Rocket_initialize([c.self EXCEPT !.rocket_dim = l], Len(l))),
             l)

(* _calculate_avg_radius_fore: the scan  while rocket_dim[i][0] < xcg      *)
(* from i = 0; it indexes past the list (IndexError) when every station    *)
(* lies before xcg.  [tot, exc].                                           *)
RECURSIVE ForeScan(_, _, _, _)
ForeScan(dim, xcg, i, tot) ==
    IF i >= Len(dim) THEN [tot |-> tot, exc |-> "IndexError"]
    ELSE IF dim[i + 1][1] < xcg THEN ForeScan(dim, xcg, i + 1, tot + dim[i + 1][1])
    ELSE [tot |-> tot, exc |-> ""]

Rocket_avg_radius_fore_set(c, r) ==
    IF r.exc # "" THEN Raise(c, r.exc)
    ELSE IF c.self.xcg = 0 THEN Raise(c, "ZeroDivisionError")
    ELSE SetSelf(c, [c.self EXCEPT !.avg_rad_fore = MulDiv(r.tot, S, c.self.xcg)])

Rocket_calculate_avg_radius_fore(c) ==
    IF c.exc # "" THEN c
    ELSE Rocket_avg_radius_fore_set(c, ForeScan(c.self.rocket_dim, c.self.xcg, 0, 0))

(* _calculate_avg_radius_aft: the scan  while rocket_dim[i][0] > xcg  from *)
(* i = len-1 downwards; a negative i indexes from the end of the list, and *)
(* i < -len raises IndexError.                                             *)
RECURSIVE AftScan(_, _, _, _)
AftStep(dim, xcg, i, tot, x) ==
    IF x > xcg THEN AftScan(dim, xcg, i - 1, tot + x)
    ELSE [tot |-> tot, exc |-> ""]

AftScan(dim, xcg, i, tot) ==
    IF i < 0 - Len(dim) THEN [tot |-> tot, exc |-> "IndexError"]
    ELSE AftStep(dim, xcg, i, tot,
                 dim[(IF i < 0 THEN i + Len(dim) ELSE i) + 1][1])

Rocket_avg_radius_aft_set(c, r, den) ==
    IF r.exc # "" THEN Raise(c, r.exc)
    ELSE IF den = 0 THEN Raise(c, "ZeroDivisionError")
    ELSE SetSelf(c, [c.self EXCEPT !.avg_rad_aft = MulDiv(r.tot, S, den)])

Rocket_calculate_avg_radius_aft(c) ==
    IF c.exc # "" THEN c
    ELSE Rocket_avg_radius_aft_set(
             c,
             AftScan(c.self.rocket_dim, c.self.xcg, Len(c.self.rocket_dim) - 1, 0),
             c.self.rocket_dim[Len(c.self.rocket_dim)][1] - c.self.xcg)

(* l**4 of a length in LU, in units of 1e-8.                               *)
Pow4(l) == MulDiv(MulDiv(l, l, S), MulDiv(l, l, S), S)

(* _calculate_pitch_damping_body:                                          *)
(* 0.275 (avg_rad_fore l_fore^4 + avg_rad_aft l_aft^4).                    *)
Rocket_pitch_damping_body_set(self) ==
    [self EXCEPT !.q_damp_body =
        MulDiv(MulDiv(2750, self.avg_rad_fore, S), Pow4(self.xcg), S)
        + MulDiv(MulDiv(2750, self.avg_rad_aft, S),
                 Pow4(self.rocket_dim[Len(self.rocket_dim)][1] - self.xcg), S)]

Rocket_pitch_damping_body_from(c) ==
    IF c.exc # "" THEN c ELSE SetSelf(c, Rocket_pitch_damping_body_set(c.self))

Rocket_calculate_pitch_damping_body(c) ==
    Rocket_pitch_damping_body_from(
        Rocket_calculate_avg_radius_aft(Rocket_calculate_avg_radius_fore(c)))

(* _calculate_reynolds_crit: 51 (relative_rough/length)**-1.039, for a     *)
(* positive length (a zero length raises ZeroDivisionError).               *)
Rocket_reynolds_crit_set(c, s1) ==
    IF s1.length <= 0 THEN Raise(SetSelf(c, s1), "ZeroDivisionError")
    ELSE SetSelf(c, [s1 EXCEPT !.reynolds_crit =
             MulDiv(51, ExpS(MulDiv(0 - 10390,
                                    LnQ(s1.relative_rough, s1.length), S)), S)])

Rocket_calculate_reynolds_crit(c) ==
    IF c.exc # "" THEN c
    ELSE Rocket_reynolds_crit_set(c, [c.self EXCEPT !.relative_rough = 6])

(* fin[i].update(l, fin_attached) on the module-level list (i is 0-based). *)
FinStore(c, i, r) == [c EXCEPT !.fin[i + 1] = r.self, !.exc = r.exc]

FinUpdateAt(c, i, l, fin_attached) ==
    IF c.exc # "" THEN c
    ELSE FinStore(c, i, Fin_update(c.fin[i + 1], l, fin_attached))

zero_fin == <<<<1, 0>>, <<10, 10>>, <<20, 10>>, <<20, 0>>>>

(* The fin part of update_rocket, lines 437-445.                           *)
Rocket_update_fin_main(c, l) ==
    IF c.self.use_fins = TRUE
    THEN FinUpdateAt(c, 0, l[7], c.self.fins_attached.val[1])
    ELSE c

Rocket_update_fin_control(c, l) ==
    IF c.self.use_fins = TRUE /\ c.self.use_fins_control = TRUE
    THEN FinUpdateAt(c, 1, l[8], c.self.fins_attached.val[2])
    ELSE c

(* Variant: update_rocket without line 441.                                *)
Rocket_update_fins_keep_control(c, l) ==
    Rocket_update_fin_control(Rocket_update_fin_main(c, l), l)

Rocket_update_fins(c, l) ==
    Rocket_update_fin_control(
        Rocket_update_fin_main(FinUpdateAt(c, 1, zero_fin, TRUE), l), l)

(* update_rocket(l0, xcg); l0 = [ogive, use_fins, fins_attached[0],        *)
(* use_fins_control, fins_attached[1], rocket_dim, fin 0, fin 1], the      *)
(* source's l[k] being l[k+1] here.                                        *)
Rocket_update_flags(self, l) ==
    [self EXCEPT !.ogive = l[1], !.use_fins = l[2],
                 !.fins_attached = PyList(<<l[3], l[5]>>),
                 !.use_fins_control = l[4]]

Rocket_update_xcg(c, xcg) ==
    IF c.exc # "" THEN c ELSE SetSelf(c, [c.self EXCEPT !.xcg = xcg])

Rocket_update_rocket(c, l0, xcg) ==
    Rocket_calculate_reynolds_crit(
        Rocket_calculate_pitch_damping_body(
            Rocket_update_xcg(
                Rocket_update_fins(
                    Rocket_update_rocket_dim(
                        SetSelf(c, Rocket_update_flags(c.self, l0)), l0[6]),
                    l0),
                xcg)))

----------------------------------------------------------------------------
(* AERODYNAMICS *)

(* Variant: no sign correction.                                            *)
Rocket_sign_correction_none(aoa) == 1

Rocket_sign_correction(aoa) == IF aoa >= 0 THEN 0 - 1 ELSE 1

(* _barrowman_cn: k1 (A[i+1] - A[i]) with k1 = 2 sin(aoa) / area_ref.      *)
RECURSIVE BarrowmanList(_, _, _)
BarrowmanList(self, sin_aoa, i) ==
    IF i > Len(self.component_cn) THEN <<>>
    ELSE <<IF i <= Len(self.station_cross_area) - 1
           THEN MulDiv(2 * sin_aoa,
                       self.station_cross_area[i + 1] - self.station_cross_area[i],
                       self.area_ref)
           ELSE self.component_cn[i]>>
         \o BarrowmanList(self, sin_aoa, i + 1)

Rocket_barrowman_cn(self, aoa) ==
    [self EXCEPT !.component_cn = BarrowmanList(self, NpSin(aoa), 1)]

(* _body_cn: component_cn[i] += 1.1 (plan_area[i]/area_ref) sin(aoa)^2.    *)
Rocket_body_cn_at(self, sin_aoa, i) ==
    FMul(FMul(11000, MulDiv(self.component_plan_area[i], S, self.area_ref)),
         FMul(sin_aoa, sin_aoa))

RECURSIVE BodyCnList(_, _, _)
BodyCnList(self, sin_aoa, i) ==
    IF i > Len(self.component_cn) THEN <<>>
    ELSE <<self.component_cn[i] + Rocket_body_cn_at(self, sin_aoa, i)>>
         \o BodyCnList(self, sin_aoa, i + 1)

Rocket_body_cn(self, aoa) ==
    [self EXCEPT !.component_cn = BodyCnList(self, NpSin(aoa), 1)]

RECURSIVE CnAlphaList(_, _, _)
CnAlphaList(self, aoa, i) ==
    IF i > Len(self.component_cn_alpha) THEN <<>>
    ELSE <<IF i <= Len(self.component_cn)
           THEN (IF aoa # 0 THEN NpDiv(self.component_cn[i], aoa) ELSE 0)
           ELSE self.component_cn_alpha[i]>>
         \o CnAlphaList(self, aoa, i + 1)

Rocket_calculate_cn_alpha(self, aoa) ==
    [self EXCEPT !.component_cn_alpha = CnAlphaList(self, aoa, 1)]

(* self.cn_alpha_og[i] = fin[i].calculate_cn_alpha(aoa, beta, mach) on the *)
(* module-level list (i is 0-based), lines 596 and 628; the angle handed   *)
(* to the fin's Airfoil is recorded in the trace.                          *)
Rocket_fin_slope_store(c, i, aoa, r) ==
    IF r.exc # ""
    THEN [c EXCEPT !.fin[i + 1] = r.self, !.exc = r.exc,
                   !.trace = Append(c.trace, aoa)]
    ELSE [c EXCEPT !.fin[i + 1] = r.self,
                   !.trace = Append(c.trace, aoa),
                   !.self.cn_alpha_og.val[i + 1] = r.cn_alpha]

FinCnAlphaAt(c, i, aoa) ==
    IF c.exc # "" THEN c
    ELSE Rocket_fin_slope_store(
             c, i, aoa,
             Fin_calculate_cn_alpha(c.fin[i + 1], aoa, c.self.beta, c.self.mach))

(* Lines 630-633: the slopes made dimensionless with the rocket's area.    *)
Rocket_fin_cn_adim(c) ==
    IF c.exc # "" THEN c
    ELSE SetSelf(c, [c.self EXCEPT !.cn_alpha_fin =
             PyList(<<FMul(MulDiv(2 * c.fin[1].area, S, c.self.area_ref),
                           c.self.cn_alpha_og.val[1]),
                      FMul(MulDiv(2 * c.fin[2].area, S, c.self.area_ref),
                           c.self.cn_alpha_og.val[2])>>)])

(* Lines 635-640, the body interference of fin i (0-based):                *)
(* KT = 1 + r/(wingspan + r) is a quotient of Python floats.               *)
Rocket_fin_cn_scale(c, i, KT) ==
    SetSelf(c, [c.self EXCEPT !.cn_alpha_fin.val[i + 1] = FMul(KT, @),
                              !.cn_alpha_og.val[i + 1] = FMul(KT, @)])

Rocket_fin_cn_KT(c, i, r_body_at_fin, den) ==
    IF den = 0 THEN Raise(c, "ZeroDivisionError")
    ELSE Rocket_fin_cn_scale(c, i, S + MulDiv(r_body_at_fin, S, den))

FinInterference(c, i) ==
    IF c.exc # "" THEN c
    ELSE IF c.self.fins_attached.val[i + 1] = TRUE
    THEN Rocket_fin_cn_KT(c, i, c.fin[i + 1].dim[1][2],
                          c.fin[i + 1].wingspan + c.fin[i + 1].dim[1][2])
    ELSE c

(* Lines 642-647: the control fin's slope normal and axial to the rocket.  *)
Rocket_fin_cn_control_set(self, normal, actuator_angle) ==
    [self EXCEPT !.cn_alpha_control_normal = normal,
                 !.cn_alpha_fin.val[2] = FMul(normal, NpCos(actuator_angle)),
                 !.cn_alpha_axial = FMul(normal, Abs(NpSin(actuator_angle)))]

Rocket_fin_cn_control(c, actuator_angle) ==
    IF c.exc # "" THEN c
    ELSE SetSelf(c, Rocket_fin_cn_control_set(c.self, c.self.cn_alpha_fin.val[2],
                                              actuator_angle))

Rocket_fin_cn_ctrl_slope(c) == FinCnAlphaAt(c, 1, c.self.aoa_ctrl_fin)

(* _fin_cn(aoa, actuator_angle): fin 0 at the body's angle, fin 1 at       *)
(* self.aoa_ctrl_fin.                                                      *)
Rocket_fin_cn(c, aoa, actuator_angle) ==
    IF c.exc # "" THEN c
    ELSE Rocket_fin_cn_control(
             FinInterference(
                 FinInterference(
                     Rocket_fin_cn_adim(
                         Rocket_fin_cn_ctrl_slope(
                             FinCnAlphaAt(
                                 SetSelf(c, [c.self EXCEPT
                                     !.cn_alpha_og = PyList(<<0, 0>>),
                                     !.cn_alpha_fin_control = PyList(<<0, 0>>)]),
                                 0, aoa))),
                     0),
                 1),
             actuator_angle)

RECURSIVE FSumSeq(_, _)
FSumSeq(s, i) == IF i > Len(s) THEN 0 ELSE FAdd(s[i], FSumSeq(s, i + 1))

(* The angle _calculate_total_cn works with: 0.0001 for 0, else |aoa|.     *)
SubstAoa(aoa) == IF aoa = 0 THEN 1 ELSE Abs(aoa)

(* Lines 663-665 on the substituted angle.                                 *)
Rocket_total_cn_body(self, aoa) ==
    Rocket_calculate_cn_alpha(
        Rocket_body_cn(Rocket_barrowman_cn(self, aoa), aoa), aoa)

Rocket_total_cn_fins(c, aoa, actuator_angle) ==
    IF c.self.use_fins = TRUE THEN Rocket_fin_cn(c, aoa, actuator_angle) ELSE c

(* Lines 668-673: the sum of the components and of the fins, signed.       *)
Rocket_total_cn_set(self, total) ==
    [self EXCEPT !.cn = IF IsNaN(total) THEN NaN ELSE self.sign_corr * total]

Rocket_total_cn_sum(c, aoa) ==
    IF c.exc # "" THEN c
    ELSE SetSelf(c, Rocket_total_cn_set(
             c.self,
             FAdd(FSumSeq(c.self.component_cn, 1),
                  IF c.self.use_fins = TRUE
                  THEN FAdd(FMul(c.self.cn_alpha_fin.val[1], aoa),
                            FMul(c.self.cn_alpha_fin.val[2], aoa))
                  ELSE 0)))

Rocket_total_cn_at(c, aoa, actuator_angle) ==
    Rocket_total_cn_sum(
        Rocket_total_cn_fins(SetSelf(c, Rocket_total_cn_body(c.self, aoa)),
                             aoa, actuator_angle),
        aoa)

Rocket_calculate_total_cn(c, aoa0, actuator_angle) ==
    IF c.exc # "" THEN c
    ELSE Rocket_total_cn_at(
             SetSelf(c, [c.self EXCEPT
                            !.cn = 0,
                            !.sign_corr = Rocket_sign_correction(aoa0)]),
             SubstAoa(aoa0), actuator_angle)

(* _calculate_cp_position: a in LU, b on scale S.                          *)
RECURSIVE CpBodySum(_, _)
CpBodyAdd(self, i, rest) ==
    <<FAdd(FMul(self.component_centroid[i] + self.rocket_dim[i][1],
                self.component_cn_alpha[i]), rest[1]),
      FAdd(self.component_cn_alpha[i], rest[2])>>

CpBodySum(self, i) ==
    IF i > Len(self.component_cn_alpha) THEN <<0, 0>>
    ELSE CpBodyAdd(self, i, CpBodySum(self, i + 1))

Rocket_cp_set(self, a, b) ==
    [self EXCEPT !.cp = IF FNe(b, 0) THEN NpDiv(a, b)
                        ELSE self.component_centroid[1]]

Rocket_cp_fins(self, fin, ab) ==
    IF self.use_fins = TRUE
    THEN Rocket_cp_set(
             self,
             FAdd(ab[1], FAdd(FMul(Fin_cp(fin[1]), self.cn_alpha_fin.val[1]),
                              FMul(Fin_cp(fin[2]), self.cn_alpha_fin.val[2]))),
             FAdd(ab[2], FAdd(self.cn_alpha_fin.val[1], self.cn_alpha_fin.val[2])))
    ELSE Rocket_cp_set(self, ab[1], ab[2])

Rocket_calculate_cp_position(c) ==
    IF c.exc # "" THEN c
    ELSE IF Len(c.self.component_cn_alpha) > Len(c.self.rocket_dim)
    THEN Raise(SetSelf(c, [c.self EXCEPT !.cp = 0]), "IndexError")
    ELSE SetSelf(c, Rocket_cp_fins(c.self, c.fin, CpBodySum(c.self, 1)))

----------------------------------------------------------------------------
(* DRAG *)

(* rho on scale S, velocity in 0.01, length in LU, mu in 1e-9.             *)
Rocket_calculate_reynolds(self, velocity_0, rho, mu) ==
    [self EXCEPT !.reynolds =
        MulDiv(MulDiv(rho, velocity_0, 100), self.length, mu)]

(* _calculate_cf, in units of 1e-6.                                        *)
Rocket_cf_transition(t) == MulDiv(10^6, S, FMul(t, t))

Rocket_cf_base(self) ==
    IF self.reynolds < 100000 THEN 14800
    ELSE IF self.reynolds < self.reynolds_crit
    THEN Rocket_cf_transition(MulDiv(15000, LnQ(self.reynolds, 1), S) - 56000)
    ELSE MulDiv(32000,
                ExpS(MulDiv(2000, LnQ(self.relative_rough, self.length), S)), S)

Rocket_calculate_cf(self) ==
    [self EXCEPT !.Cf =
        MulDiv(Rocket_cf_base(self),
               S - MulDiv(1000, FMul(self.mach, self.mach), S), S)]

(* The loop of _calculate_pressure_drag from segment i (1-based), phi the  *)
(* local of the same name: a zero-length segment raises ZeroDivisionError, *)
(* which is caught and printed, and phi keeps the value of the segment     *)
(* before; with no segment before, reading phi raises UnboundLocalError.   *)
RECURSIVE PressureDragLoop(_, _, _)
PressureDragStore(c, i, phi, sin_phi) ==
    PressureDragLoop(
        SetSelf(c, [c.self EXCEPT !.cd_pressure_component.val[i] =
                       MulDiv(8000, FMul(sin_phi, sin_phi), S)]),
        i + 1, phi)

PressureDragStep(c, i, phi) ==
    IF phi = Unset THEN Raise(c, "UnboundLocalError")
    ELSE PressureDragStore(c, i, phi, NpSin(phi))

PressureDragPhi(c, i, phi, l, dd) ==
    PressureDragStep(c, i, IF l = 0 THEN phi
                           ELSE NpArctan(MulDiv(dd, S, 2 * l)))

PressureDragLoop(c, i, phi) ==
    IF i > Len(c.self.rocket_dim) - 1 THEN c
    ELSE PressureDragPhi(c, i, phi,
                         c.self.rocket_dim[i + 1][1] - c.self.rocket_dim[i][1],
                         c.self.rocket_dim[i + 1][2] - c.self.rocket_dim[i][2])

Rocket_pressure_drag_ogive(c) ==
    IF c.exc # "" THEN c
    ELSE IF c.self.ogive = TRUE
    THEN IF Len(c.self.rocket_dim) - 1 >= 1
         THEN SetSelf(c, [c.self EXCEPT !.cd_pressure_component.val[1] = 0])
         ELSE Raise(c, "IndexError")
    ELSE c

Rocket_calculate_pressure_drag(c) ==
    IF c.exc # "" THEN c
    ELSE Rocket_pressure_drag_ogive(
             PressureDragLoop(
                 SetSelf(c, [c.self EXCEPT !.cd_pressure_component =
                                PyList(Zeros(Len(c.self.rocket_dim) - 1))]),
                 1, Unset))

Rocket_calculate_base_drag(self) ==
    [self EXCEPT !.base_drag = 1200 + MulDiv(1300, FMul(self.mach, self.mach), S)]

(* The loop of _calculate_cd from segment i (1-based), lines 809-819.      *)
RECURSIVE CdLoop(_, _, _)
CdLoop(self, aoa, i) ==
    IF i > Len(self.station_cross_area) - 1 THEN self
    ELSE IF i = Len(self.station_cross_area) - 1 /\ Abs(aoa) > HalfPiS
    THEN CdLoop([self EXCEPT
                    !.cd_pressure_component.val[i] = S,
                    !.pressure_cd = @ + MulDiv(self.station_cross_area[i + 1], S,
                                               self.area_ref)],
                aoa, i + 1)
    ELSE CdLoop([self EXCEPT
                    !.pressure_cd =
                        @ + MulDiv(Abs(self.station_cross_area[i + 1]
                                       - self.station_cross_area[i]),
                                   self.cd_pressure_component.val[i],
                                   self.area_ref)],
                aoa, i + 1)

(* Variant: pressure_cd is not set back to 0 (line 809).                   *)
Rocket_cd_friction_accumulate(self) ==
    [self EXCEPT
        !.cd0_friction =
            MulDiv(MulDiv(self.Cf, S + MulDiv(S, S, 2 * self.fineness), S),
                   self.area_wet_body, self.area_ref) \div 100]

Rocket_cd_friction(self) ==
    [self EXCEPT
        !.cd0_friction =
            MulDiv(MulDiv(self.Cf, S + MulDiv(S, S, 2 * self.fineness), S),
                   self.area_wet_body, self.area_ref) \div 100,
        !.pressure_cd = 0]

Rocket_cd_total(self) ==
    [self EXCEPT !.cd0 = self.pressure_cd + self.base_drag_cd + self.cd0_friction]

Rocket_cd_base(c, s2) ==
    IF Len(s2.station_cross_area) = 0 THEN Raise(SetSelf(c, s2), "IndexError")
    ELSE SetSelf(c, Rocket_cd_total(
             [s2 EXCEPT !.base_drag_cd =
                 MulDiv(s2.station_cross_area[Len(s2.station_cross_area)],
                        s2.base_drag, s2.area_ref)]))

Rocket_calculate_cd(c, aoa) ==
    IF c.exc # "" THEN c
    ELSE IF c.self.fineness = 0 THEN Raise(c, "ZeroDivisionError")
    ELSE Rocket_cd_base(c, CdLoop(Rocket_cd_friction(c.self), aoa, 1))

Rocket_fin_ca(c) ==
    SetSelf(c, [c.self EXCEPT !.ca =
        FAdd(FAdd(c.self.ca,
                  FMul(c.fin[1].ca, MulDiv(2 * c.fin[1].area, S, c.self.area_ref))),
             FMul(c.fin[2].ca, MulDiv(2 * c.fin[2].area, S, c.self.area_ref)))])

Rocket_control_fin_drag(c, aoa) ==
    SetSelf(c, [c.self EXCEPT !.ca =
        FAdd(c.self.ca,
             FMul(c.self.cn_alpha_axial, aoa - c.self.actuator_angle))])

Rocket_ca_fins(c, aoa) ==
    IF c.self.use_fins = TRUE
    THEN Rocket_control_fin_drag(Rocket_fin_ca(c), aoa)
    ELSE c

Rocket_calculate_ca(c, aoa) ==
    IF c.exc # "" THEN c
    ELSE Rocket_ca_fins(
             SetSelf(c, [c.self EXCEPT !.ca =
                 FMul(c.self.cd0, NpInterp(aoa, aoa_list_ca, ca_scale))]),
             aoa)

Rocket_total_ca_base_drag(c) ==
    IF c.exc # "" THEN c ELSE SetSelf(c, Rocket_calculate_base_drag(c.self))

Rocket_calculate_total_ca(c, aoa, velocity_0, rho, mu) ==
    IF c.exc # "" THEN c
    ELSE Rocket_calculate_ca(
             Rocket_calculate_cd(
                 Rocket_total_ca_base_drag(
                     Rocket_calculate_pressure_drag(
                         SetSelf(c, Rocket_calculate_cf(
                             Rocket_calculate_reynolds(c.self, velocity_0, rho,
                                                       mu))))),
                 aoa),
             aoa)

(* calculate_aero_coef(aoa, v_loc_tot, rho, mu, mach, actuator_angle, q):  *)
(* the context left behind; the call returns (self.cn, self.cp, self.ca).  *)
(* beta is computed from the argument mach, not from the clamped one.      *)
Rocket_calculate_aero_coef(c, aoa, v_loc_tot, rho, mu, mach, actuator_angle, q) ==
    Rocket_calculate_total_ca(
        Rocket_calculate_cp_position(
            Rocket_calculate_total_cn(
                SetSelf(c, [c.self EXCEPT
                    !.q = q, !.v_loc_tot = v_loc_tot,
                    !.mach = IF mach < 10 THEN 10 ELSE mach,
                    !.beta = NpSqrt(S - FMul(mach, mach)),
                    !.actuator_angle = actuator_angle,
                    !.aoa_ctrl_fin = aoa - actuator_angle]),
                aoa, actuator_angle)),
        aoa,
        ISqrt(v_loc_tot[1] * v_loc_tot[1] + v_loc_tot[2] * v_loc_tot[2]),
        rho, mu)

----------------------------------------------------------------------------
(* Pitch damping accessors *)

(* _calculate_pitch_damp_fin: sum of |F (cp - xcg)| with                   *)
(* F = 0.5 v 5.65 (cp - xcg) 2 area, in units of 1e-8.                     *)
Rocket_pitch_damp_fin_term(self, area, d) ==
    Abs(MulDiv(MulDiv(MulDiv(self.v_loc_tot[1], 565, 100), area, 10^5),
               MulDiv(d, d, S), S))

Rocket_calculate_pitch_damp_fin(self, fin) ==
    Rocket_pitch_damp_fin_term(self, fin[1].area, Fin_cp(fin[1]) - self.xcg)
    + Rocket_pitch_damp_fin_term(self, fin[2].area, Fin_cp(fin[2]) - self.xcg)

Rocket_get_q_damp_body(c) ==
    IF c.self.q_damp_body = Unset
    THEN [c |-> Raise(c, "AttributeError"), ret |-> 0]
    ELSE [c |-> c, ret |-> c.self.q_damp_body]

Rocket_q_damp_fin_return(c, m) ==
    [c |-> SetSelf(c, [c.self EXCEPT !.q_damp_fin = m]), ret |-> m]

Rocket_get_q_damp_fin(c) ==
    Rocket_q_damp_fin_return(
        c, IF c.self.use_fins = TRUE
           THEN Rocket_calculate_pitch_damp_fin(c.self, c.fin)
           ELSE 0)

----------------------------------------------------------------------------
(* MOTOR, pad latch, reset *)

(* set_motor(data): data = [time list, thrust list], copied.               *)
Rocket_set_motor(self, data) ==
    [self EXCEPT !.motor = <<data[1], data[2]>>]

(* get_thrust(t, t_launch): [self, exc, ret]; np.interp raises ValueError  *)
(* on an empty curve or on lists of different lengths.                     *)
Rocket_thrust_return(self, thrust) ==
    [self |-> [self EXCEPT !.thrust = thrust], exc |-> "", ret |-> thrust]

(* Variant: no floor at 0.001 (lines 878-879).                             *)
Rocket_thrust_nofloor(thrust) == thrust
Rocket_thrust_floor(thrust) == IF thrust < 10 THEN 10 ELSE thrust

Rocket_get_thrust(self, t, t_launch) ==
    IF Len(self.motor[1]) = 0 \/ Len(self.motor[1]) # Len(self.motor[2])
    THEN [self |-> self, exc |-> "ValueError", ret |-> 0]
    ELSE Rocket_thrust_return(
             self,
             Rocket_thrust_floor(
                 NpInterp(t - t_launch, self.motor[1], self.motor[2])))

(* is_in_the_pad(alt): [self, ret]; 0.2 is 2000 on scale S.                *)
Rocket_pad_return(self, flag) ==
    [self |-> [self EXCEPT !.is_in_the_pad_flag = flag], ret |-> flag]

(* Variant: the flag follows the altitude, no latch.                       *)
Rocket_is_in_the_pad_nolatch(self, alt) == Rocket_pad_return(self, ~(alt > 2000))

Rocket_is_in_the_pad(self, alt) ==
    Rocket_pad_return(self,
                      IF alt > 2000 /\ self.is_in_the_pad_flag = TRUE
                      THEN FALSE
                      ELSE self.is_in_the_pad_flag)

(* burnout_time(): [exc, ret]; motor[0][-1] raises IndexError when empty.  *)
Rocket_burnout_time(self) ==
    IF Len(self.motor[1]) = 0
    THEN [exc |-> "IndexError", ret |-> 0]
    ELSE [exc |-> "", ret |-> self.motor[1][Len(self.motor[1])]]

(* Variant: reset_variables without line 919.                              *)
Rocket_reset_variables_keep_flag(self) ==
    [self EXCEPT !.thrust = 0, !.cn = 0, !.xcp = 0, !.ca = 0,
                 !.motor = <<<<>>, <<>>>>]

(* Variant: reset_variables without line 918.                              *)
Rocket_reset_variables_keep_motor(self) ==
    [self EXCEPT !.thrust = 0, !.cn = 0, !.xcp = 0, !.ca = 0,
                 !.is_in_the_pad_flag = TRUE]

Rocket_reset_variables(self) ==
    [self EXCEPT !.thrust = 0, !.cn = 0, !.xcp = 0, !.ca = 0,
                 !.motor = <<<<>>, <<>>>>, !.is_in_the_pad_flag = TRUE]

----------------------------------------------------------------------------
(* LIST OBJECTS                                                            *)
(*                                                                         *)
(* A Python list seen as an object: its value and its identity.  The       *)
(* identity is the path by which the caller reaches the object (<<"l0">>   *)
(* is the caller's list l0, <<"l0", 6>> its element l0[5]), or <<>> for an *)
(* object that only the program refers to.  An assignment through one      *)
(* reference to an object is seen through every other reference to it.     *)
Obj(val, id) == [val |-> val, id |-> id]
Item(o, k) == Obj(o.val[k], IF o.id = <<>> THEN <<>> ELSE Append(o.id, k))

(* Variant: the reference itself in place of a copy.                       *)
same_object(o) == o

(* copy.deepcopy: an equal value in objects that nothing else refers to.   *)
deepcopy(o) == Obj(o.val, <<>>)

(* What the stored lists are after update_rocket(l0, xcg): l is the local  *)
(* l = copy.deepcopy(l0); _update_rocket_dim copies l[5] again, Fin.update *)
(* copies the planform it is given.                                        *)
Held_fin_update(h, i, l) == [h EXCEPT !.fin[i + 1] = deepcopy(l).id]

Held_update_rocket_dim(h, r, l) ==
    [h EXCEPT !.rocket_dim[r] = deepcopy(Item(l, 6)).id]

Held_update_fin_control(h, l) ==
    IF l.val[2] /\ l.val[4] THEN Held_fin_update(h, 1, Item(l, 8)) ELSE h

Held_update_fin_main(h, l) ==
    IF l.val[2] THEN Held_fin_update(h, 0, Item(l, 7)) ELSE h

Held_update_fins(h, l) ==
    Held_update_fin_control(
        Held_update_fin_main(Held_fin_update(h, 1, Obj(zero_fin, <<>>)), l), l)

Held_update_rocket(h, r, l0) ==
    Held_update_fins(Held_update_rocket_dim(h, r, deepcopy(l0)), deepcopy(l0))

(* set_motor(data) stores copies of data[0] and data[1] in the list        *)
(* self.motor; reset_variables replaces self.motor by a new list.          *)
Held_set_motor(h, r, data) ==
    [h EXCEPT !.motor[r] = <<deepcopy(Item(data, 1)).id,
                             deepcopy(Item(data, 2)).id>>]

Held_reset_variables(h, r) == [h EXCEPT !.motor[r] = <<<<>>, <<>>>>]

(* The property Fin.dim of fin[i]: a copy of the list self._dim.           *)
Fin_dim(self, i) == deepcopy(Obj(self.dim, <<"fin", i>>))

(* The list that a stored reference id shows when the caller's lists are   *)
(* c: the program's own list for <<>>, else the caller's list at path id.  *)
Seen(id, own, c) ==
    IF id = <<>> THEN own
    ELSE IF Len(id) = 1 THEN c[id[1]]
    ELSE c[id[1]][id[2]]

----------------------------------------------------------------------------
(* THE STATE MACHINE                                                       *)
(*                                                                         *)
(* The program's state is the Rocket objects a caller holds, the           *)
(* module-level list fin they share, and one Airfoil a caller holds on its *)
(* own.  Every public method is one action; ret records the call that was  *)
(* made last, with its arguments, the value it returned and the exception  *)
(* that escaped from it.  pad, ref, peer and foilRef are history variables *)
(* of the properties; no action reads them.  caller is the state of the    *)
(* calling program: the lists it owns and the number of direct Fin.update  *)
(* calls it has made.  held says, for every list the objects store, which  *)
(* list of the caller it is (a path into caller), or <<>> for a list that  *)
(* only the object refers to.                                              *)

VARIABLES rocket, fin, foil, ret, pad, ref, peer, foilRef, caller, held

vars == <<rocket, fin, foil, ret, pad, ref, peer, foilRef, caller, held>>

Rockets == {"A", "B"}
Other(r) == IF r = "A" THEN "B" ELSE "A"

(* Bounds of the inputs. *)
MaxAlt == 3
MaxAoa == 1
MaxXcg == 2
MaxTime == 6

AltStep == S \div 10
AoaStep == PiS \div 36
TimeStep == S \div 4
XcgStep == S \div 2

Alts == {AltStep * k : k \in 0..MaxAlt}
Aoas == {AoaStep * k : k \in (0 - MaxAoa)..MaxAoa}
Xcgs == {XcgStep * k : k \in 2..(MaxXcg + 1)}
Times == {TimeStep * k : k \in 0..MaxTime}
Launches == {0, 2 * TimeStep}

(* Bodies: lists of stations <<x, diameter>> in LU.  BodyStep has a        *)
(* zero-length second segment, BodyBlunt a zero-length first segment.      *)
BodyCone == <<<<0, 0>>, <<10000, 5000>>, <<30000, 5000>>>>
BodyBoat == <<<<0, 0>>, <<8000, 5000>>, <<26000, 5000>>, <<30000, 4000>>>>
BodyStep == <<<<0, 0>>, <<10000, 5000>>, <<10000, 6000>>, <<30000, 6000>>>>
BodyBlunt == <<<<0, 0>>, <<0, 5000>>, <<30000, 5000>>>>
FinMain == <<<<25000, 2500>>, <<27000, 7500>>, <<30000, 7500>>, <<30000, 2500>>>>
FinCanard == <<<<12000, 2500>>, <<13000, 5500>>, <<14000, 5500>>, <<15000, 2500>>>>

CfgBare == <<FALSE, FALSE, TRUE, FALSE, TRUE, BodyCone, FinMain, FinCanard>>
CfgFins == <<TRUE, TRUE, TRUE, FALSE, TRUE, BodyBoat, FinMain, FinCanard>>
CfgCtrl == <<FALSE, TRUE, TRUE, TRUE, FALSE, BodyCone, FinMain, FinCanard>>
CfgStep == <<FALSE, FALSE, TRUE, FALSE, TRUE, BodyStep, FinMain, FinCanard>>
CfgBlunt == <<FALSE, FALSE, TRUE, FALSE, TRUE, BodyBlunt, FinMain, FinCanard>>
XcgMid == 3 * XcgStep

AeroConfigs == {CfgCtrl, CfgStep}
GeomConfigs == {CfgBare, CfgFins, CfgStep, CfgBlunt}

(* Thrust curves <<times, thrusts>>, both on scale S. *)
CurveBoost == <<<<0, 1000, 5000, 10000>>, <<0, 30000, 20000, 0>>>>
CurveFaint == <<<<2500, 7500>>, <<4, 25>>>>
CurvePoint == <<<<5000>>, <<15000>>>>
MotorCurves == {CurveBoost, CurveFaint, CurvePoint}

(* The defaults of calculate_aero_coef: v_loc_tot = [10, 0], rho = 1.225,  *)
(* mu = 1.784e-5, q = 0.                                                   *)
DefaultV == <<10 * (S \div 100), 0>>
DefaultRho == (1225 * S) \div 1000
DefaultMu == 1784 * 10
DefaultMach == S \div 1000

(* Argument lists <<aoa, mach, actuator_angle>> of calculate_aero_coef:    *)
(* small angles of either sign at the default Mach number, a deflected     *)
(* actuator at Mach 0.3, and a rocket flying backwards (aoa = 2 rad).      *)
AeroArgs ==
    {<<aoa, DefaultMach, 0>> : aoa \in Aoas}
        \cup {<<AoaStep, 3 * (S \div 10), AoaStep>>, <<2 * S, DefaultMach, 0>>}
GeomArgs == {<<AoaStep, DefaultMach, 0>>, <<2 * S, DefaultMach, 0>>}

AeroCall(c, aoa, mach, act) ==
    Rocket_calculate_aero_coef(c, aoa, DefaultV, DefaultRho, DefaultMu, mach, act, 0)
AeroValue(c) == <<c.self.cn, c.self.cp, c.self.ca>>

(* What the queries of rocket r return in the current state. *)
QueryRow(c, q_damp_fin) == <<c.exc, AeroValue(c), q_damp_fin>>
QueryTable(self, f) ==
    QueryRow(AeroCall(Ctx(self, f), AoaStep, DefaultMach, AoaStep \div 2),
             Rocket_get_q_damp_fin(Ctx(self, f)).ret)

NoCall == [op |-> "init", who |-> "A", args |-> <<>>, val |-> 0, exc |-> "",
           trace |-> <<>>]
NoRef == [set |-> FALSE]
PadFresh == [high |-> FALSE, reconf |-> FALSE]

(* The caller starts with a configuration list and a thrust curve of its   *)
(* own and no list obtained from Fin.dim; every stored list starts as the  *)
(* constructor's own.                                                      *)
caller_init == [l0 |-> CfgFins, data |-> CurveBoost, view |-> <<>>, updates |-> 0]
held_init ==
    [rocket_dim |-> [r \in Rockets |-> <<>>],
     motor |-> [r \in Rockets |-> <<<<>>, <<>>>>],
     fin |-> <<<<>>, <<>>>>,
     view |-> <<>>]

Init ==
    /\ rocket = [r \in Rockets |-> Rocket_init]
    /\ fin = fin_init
    /\ foil = Airfoil_new
    /\ ret = NoCall
    /\ pad = [r \in Rockets |-> PadFresh]
    /\ ref = NoRef
    /\ peer = [who |-> "B", table |-> QueryTable(Rocket_init, fin_init)]
    /\ foilRef = NoRef
    /\ caller = caller_init
    /\ held = held_init

(* The part every Rocket action shares: the object, the shared list, the   *)
(* record of the call, and the view the other rocket had before it.        *)
Call(r, self2, fin2, op, args, val, exc, trace) ==
    /\ rocket' = [rocket EXCEPT ![r] = self2]
    /\ fin' = fin2
    /\ ret' = [op |-> op, who |-> r, args |-> args, val |-> val, exc |-> exc,
               trace |-> trace]
    /\ peer' = [who |-> Other(r),
                table |-> QueryTable(rocket[Other(r)], fin)]
    /\ UNCHANGED <<foil, foilRef, caller>>

UpdateRocket(r, l0, xcg) ==
    \E c \in {Rocket_update_rocket(Ctx(rocket[r], fin), l0, xcg)} :
        /\ Call(r, c.self, c.fin, "update_rocket", <<l0, xcg>>, 0, c.exc, <<>>)
        /\ held' = Held_update_rocket(held, r, Obj(l0, <<>>))
        /\ pad' = [pad EXCEPT ![r].reconf = TRUE]
        /\ ref' = NoRef

CalculateAeroCoef(r, aoa, mach, act) ==
    \E c \in {AeroCall(Ctx(rocket[r], fin), aoa, mach, act)} :
    \E v \in {IF c.exc = "" THEN AeroValue(c) ELSE <<>>} :
        /\ Call(r, c.self, c.fin, "calculate_aero_coef", <<aoa, mach, act>>,
                v, c.exc, c.trace)
        /\ ref' = IF ref.set
                  THEN [ref EXCEPT !.other = @ \/ ref.args # <<aoa, mach, act>>]
                  ELSE [set |-> TRUE, who |-> r, args |-> <<aoa, mach, act>>,
                        val |-> v, exc |-> c.exc, other |-> FALSE]
        /\ UNCHANGED <<pad, held>>

SetMotor(r, data) ==
    /\ Call(r, Rocket_set_motor(rocket[r], data), fin, "set_motor", data, 0, "",
            <<>>)
    /\ held' = Held_set_motor(held, r, Obj(data, <<>>))
    /\ UNCHANGED <<pad, ref>>

GetThrust(r, t, t_launch) ==
    \E g \in {Rocket_get_thrust(rocket[r], t, t_launch)} :
        /\ Call(r, g.self, fin, "get_thrust", <<t, t_launch>>, g.ret, g.exc, <<>>)
        /\ UNCHANGED <<pad, ref, held>>

BurnoutTime(r) ==
    \E g \in {Rocket_burnout_time(rocket[r])} :
        /\ Call(r, rocket[r], fin, "burnout_time", <<>>, g.ret, g.exc, <<>>)
        /\ UNCHANGED <<pad, ref, held>>

GetQDampBody(r) ==
    \E g \in {Rocket_get_q_damp_body(Ctx(rocket[r], fin))} :
        /\ Call(r, g.c.self, g.c.fin, "get_q_damp_body", <<>>, g.ret, g.c.exc,
                <<>>)
        /\ UNCHANGED <<pad, ref, held>>

GetQDampFin(r) ==
    \E g \in {Rocket_get_q_damp_fin(Ctx(rocket[r], fin))} :
        /\ Call(r, g.c.self, g.c.fin, "get_q_damp_fin", <<>>, g.ret, g.c.exc,
                <<>>)
        /\ UNCHANGED <<pad, ref, held>>

IsInThePad(r, alt) ==
    \E g \in {Rocket_is_in_the_pad(rocket[r], alt)} :
        /\ Call(r, g.self, fin, "is_in_the_pad", alt, g.ret, "", <<>>)
        /\ pad' = [pad EXCEPT ![r].high = @ \/ alt > 2 * AltStep]
        /\ UNCHANGED <<ref, held>>

ResetVariables(r) ==
    /\ Call(r, Rocket_reset_variables(rocket[r]), fin, "reset_variables", <<>>,
            0, "", <<>>)
    /\ held' = Held_reset_variables(held, r)
    /\ pad' = [pad EXCEPT ![r] = PadFresh]
    /\ UNCHANGED ref

(* The caller sets the option attributes of its Airfoil. *)
AirfoilSetOptions(u, w, m) ==
    /\ foil' = [foil EXCEPT !.use_2pi = u, !.use_windtunel = w,
                            !.use_windtunnel_modified = m]
    /\ ret' = [op |-> "set_options", who |-> "foil", args |-> <<u, w, m>>,
               val |-> 0, exc |-> "", trace |-> <<>>]
    /\ foilRef' = NoRef
    /\ UNCHANGED <<rocket, fin, pad, ref, peer, caller, held>>

AirfoilGetAeroCoef(aoa, remember) ==
    \E g \in {Airfoil_get_aero_coef(foil, aoa)} :
    \E v \in {IF g.exc = "" THEN <<g.cn, g.ca, g.cn_alpha>> ELSE <<>>} :
        /\ foil' = g.self
        /\ ret' = [op |-> "get_aero_coef", who |-> "foil", args |-> aoa,
                   val |-> v, exc |-> g.exc, trace |-> <<>>]
        /\ foilRef' = IF remember /\ g.exc = ""
                      THEN [set |-> TRUE, aoa |-> aoa, cn |-> g.cn, ca |-> g.ca]
                      ELSE foilRef
        /\ UNCHANGED <<rocket, fin, pad, ref, peer, caller, held>>

(* Spec: one rocket, the whole public interface. *)
Next ==
    \/ UpdateRocket("A", CfgFins, XcgMid)
    \/ CalculateAeroCoef("A", AoaStep, DefaultMach, 0)
    \/ SetMotor("A", CurveBoost)
    \/ GetThrust("A", 2 * TimeStep, 0)
    \/ BurnoutTime("A")
    \/ GetQDampBody("A")
    \/ GetQDampFin("A")
    \/ \E alt \in Alts : IsInThePad("A", alt)
    \/ ResetVariables("A")

Spec == Init /\ [][Next]_vars

(* SpecAero: one rocket with fins, or with a zero-length segment, and its  *)
(* aerodynamic queries.                                                    *)
NextAero ==
    \/ \E l0 \in AeroConfigs : UpdateRocket("A", l0, XcgMid)
    \/ \E a \in AeroArgs : CalculateAeroCoef("A", a[1], a[2], a[3])
    \/ ResetVariables("A")

SpecAero == Init /\ [][NextAero]_vars

(* SpecGeom: one rocket re-configured with bodies of three and of four     *)
(* stations, with and without a zero-length segment.                       *)
NextGeom ==
    \/ \E l0 \in GeomConfigs, xcg \in Xcgs : UpdateRocket("A", l0, xcg)
    \/ \E a \in GeomArgs : CalculateAeroCoef("A", a[1], a[2], a[3])
    \/ GetQDampBody("A")

SpecGeom == Init /\ [][NextGeom]_vars

(* SpecTwo: two rockets of one program. *)
NextTwo ==
    \/ UpdateRocket("A", CfgFins, XcgMid)
    \/ UpdateRocket("B", CfgCtrl, XcgMid)
    \/ \E r \in Rockets :
           CalculateAeroCoef(r, AoaStep, DefaultMach, AoaStep \div 2)
    \/ GetQDampFin("A")

SpecTwo == Init /\ [][NextTwo]_vars

(* SpecMotor: the thrust curve of one rocket. *)
NextMotor ==
    \/ \E data \in MotorCurves : SetMotor("A", data)
    \/ \E t \in Times, t_launch \in Launches : GetThrust("A", t, t_launch)
    \/ BurnoutTime("A")
    \/ ResetVariables("A")

SpecMotor == Init /\ [][NextMotor]_vars

(* SpecAirfoil: one Airfoil under every setting of its options. *)
FoilAoas == {AoaStep * k : k \in (0 - 3 * MaxAoa)..(3 * MaxAoa)}
                \cup {2 * S, 0 - 2 * S, 4 * S, 0 - 4 * S}
NextAirfoil ==
    \/ \E u, w, m \in BOOLEAN : AirfoilSetOptions(u, w, m)
    \/ \E aoa \in FoilAoas, remember \in BOOLEAN : AirfoilGetAeroCoef(aoa, remember)

SpecAirfoil == Init /\ [][NextAirfoil]_vars

(* SpecFin: the two Fin objects of the module under direct update calls,  *)
(* with a planform of positive area and one whose chords are both zero.    *)
(* ref keeps the call made before the last one and the fins as they were   *)
(* between the two.                                                        *)
MaxUpdates == 4

FinLine == <<<<25000, 2500>>, <<27000, 7500>>, <<27000, 7500>>, <<25000, 2500>>>>
FinPlanforms == {FinMain, FinLine}

FinUpdate(i, l, fin_attached) ==
    /\ caller.updates < MaxUpdates
    /\ \E u \in {Fin_update(fin[i], l, fin_attached)} :
           /\ fin' = [fin EXCEPT ![i] = u.self]
           /\ ret' = [op |-> "Fin.update", who |-> "fin",
                      args |-> <<i, l, fin_attached>>, val |-> 0, exc |-> u.exc,
                      trace |-> <<>>]
    /\ ref' = [set |-> TRUE, call |-> ret, fin |-> fin]
    /\ caller' = [caller EXCEPT !.updates = @ + 1]
    /\ held' = Held_fin_update(held, i - 1, Obj(l, <<>>))
    /\ UNCHANGED <<rocket, foil, pad, peer, foilRef>>

NextFin ==
    \E i \in 1..2, l \in FinPlanforms, fin_attached \in BOOLEAN :
        FinUpdate(i, l, fin_attached)

SpecFin == Init /\ [][NextFin]_vars

(* SpecCaller: one rocket configured from the caller's own lists, which   *)
(* the caller then assigns into: a diameter in l0[5], an x coordinate in   *)
(* l0[6], a thrust in data[1], an x coordinate in the list got from        *)
(* Fin.dim.  The assignment is seen by every stored list that is the       *)
(* caller's object.                                                        *)
UpdateRocketOwn(r, xcg) ==
    \E c \in {Rocket_update_rocket(Ctx(rocket[r], fin), caller.l0, xcg)} :
        /\ Call(r, c.self, c.fin, "update_rocket", <<caller.l0, xcg>>, 0, c.exc,
                <<>>)
        /\ held' = Held_update_rocket(held, r, Obj(caller.l0, <<"l0">>))
        /\ pad' = [pad EXCEPT ![r].reconf = TRUE]
        /\ ref' = NoRef

SetMotorOwn(r) ==
    /\ Call(r, Rocket_set_motor(rocket[r], caller.data), fin, "set_motor",
            caller.data, 0, "", <<>>)
    /\ held' = Held_set_motor(held, r, Obj(caller.data, <<"data">>))
    /\ UNCHANGED <<pad, ref>>

FinDim(i) ==
    /\ fin[i].dim # <<>>
    /\ \E o \in {Fin_dim(fin[i], i)} :
           /\ caller' = [caller EXCEPT !.view = o.val]
           /\ held' = [held EXCEPT !.view = o.id]
           /\ ret' = [op |-> "Fin.dim", who |-> "fin", args |-> <<i>>,
                      val |-> o.val, exc |-> "", trace |-> <<>>]
    /\ UNCHANGED <<rocket, fin, foil, pad, ref, peer, foilRef>>

Diameters == {4000}
TipEnds == {29000}
Thrusts == {25000}

Assigned(c, what, x) ==
    CASE what = "l0[5][1][1]" -> [c EXCEPT !.l0[6][2][2] = x]
      [] what = "l0[6][2][0]" -> [c EXCEPT !.l0[7][3][1] = x]
      [] what = "data[1][1]" -> [c EXCEPT !.data[2][2] = x]
      [] what = "view[2][0]" -> [c EXCEPT !.view[3][1] = x]

Assignments ==
    {<<"l0[5][1][1]", x>> : x \in Diameters}
        \cup {<<"l0[6][2][0]", x>> : x \in TipEnds}
        \cup {<<"data[1][1]", x>> : x \in Thrusts}
        \cup {<<"view[2][0]", x>> : x \in TipEnds}

SeenRocket(self, r, h, c) ==
    [self EXCEPT !.rocket_dim = Seen(h.rocket_dim[r], @, c),
                 !.motor = <<Seen(h.motor[r][1], @[1], c),
                             Seen(h.motor[r][2], @[2], c)>>]

SeenFin(self, i, h, c) ==
    [self EXCEPT !.dim = IF h.view = <<"fin", i>> THEN c.view
                         ELSE Seen(h.fin[i], @, c)]

CallerAssigns(what, x) ==
    /\ what = "view[2][0]" => caller.view # <<>>
    /\ \E c \in {Assigned(caller, what, x)} :
           /\ c # caller
           /\ caller' = c
           /\ rocket' = [r \in Rockets |-> SeenRocket(rocket[r], r, held, c)]
           /\ fin' = <<SeenFin(fin[1], 1, held, c), SeenFin(fin[2], 2, held, c)>>
    /\ ret' = [op |-> "assign", who |-> "caller", args |-> <<what, x>>,
               val |-> 0, exc |-> "", trace |-> <<>>]
    /\ UNCHANGED <<foil, pad, ref, peer, foilRef, held>>

NextCaller ==
    \/ UpdateRocketOwn("A", XcgMid)
    \/ SetMotorOwn("A")
    \/ \E i \in 1..2 : FinDim(i)
    \/ \E a \in Assignments : CallerAssigns(a[1], a[2])
    \/ CalculateAeroCoef("A", AoaStep, DefaultMach, 0)
    \/ GetThrust("A", 2 * TimeStep, 0)
    \/ BurnoutTime("A")

SpecCaller == Init /\ [][NextCaller]_vars

(* SpecXcg: one rocket configured with centres of gravity before, at,     *)
(* between and beyond the stations of its body.                            *)
XcgsWide == {XcgStep * k : k \in (0 - 1)..(MaxXcg + 5)}

NextXcg ==
    \/ \E l0 \in {CfgBare, CfgFins}, xcg \in XcgsWide : UpdateRocket("A", l0, xcg)
    \/ GetQDampBody("A")

SpecXcg == Init /\ [][NextXcg]_vars

(* SpecSweep: a cone-cylinder body without fins at the default Mach       *)
(* number, swept over angles of attack from 0 in steps of 15 degrees.      *)
MaxSweep == 6

SweepStep == PiS \div 12
SweepAoas == {SweepStep * k : k \in 0..MaxSweep}

NextSweep ==
    \/ \E xcg \in Xcgs : UpdateRocket("A", CfgBare, xcg)
    \/ \E aoa \in SweepAoas : CalculateAeroCoef("A", aoa, DefaultMach, 0)

SpecSweep == Init /\ [][NextSweep]_vars

(* SpecMach: one rocket with control fins queried at Mach numbers below,  *)
(* at and above the floor of 0.001, in steps of 0.25 from -0.5.            *)
MaxMach == 2

MachStep == S \div 4
Machs == {MachStep * k : k \in (0 - 2)..MaxMach} \cup {DefaultMach}

NextMach ==
    \/ \E l0 \in {CfgBare, CfgCtrl} : UpdateRocket("A", l0, XcgMid)
    \/ \E mach \in Machs : CalculateAeroCoef("A", AoaStep, mach, 0)

SpecMach == Init /\ [][NextMach]_vars

(* SpecCtrl: one rocket re-configured with and without control fins.      *)
NextCtrl ==
    \/ \E l0 \in {CfgCtrl, CfgFins, CfgBare} : UpdateRocket("A", l0, XcgMid)
    \/ \E aoa \in {AoaStep, 0 - AoaStep} :
           CalculateAeroCoef("A", aoa, 3 * (S \div 10), AoaStep \div 2)
    \/ GetQDampFin("A")

SpecCtrl == Init /\ [][NextCtrl]_vars

----------------------------------------------------------------------------
(* PROPERTIES *)

(* C1.  On a rocket that is freshly constructed or freshly reset (and not  *)
(* re-configured since), is_in_the_pad returns True exactly when no call   *)
(* so far, the current one included, had alt > 0.2: the value goes False   *)
(* at the first altitude above 0.2 and stays False for every later         *)
(* altitude, those at or below 0.2 included.  pad[r].high records that an  *)
(* altitude above 0.2 was passed since construction or reset.              *)
C1_PadLatch ==
    (ret.op = "is_in_the_pad" /\ ~pad[ret.who].reconf)
        => (ret.val = ~pad[ret.who].high)

C1_Witness ==
    /\ ret.op = "is_in_the_pad"
    /\ ~pad["A"].reconf
    /\ pad["A"].high
    /\ ret.args <= 2 * AltStep
    /\ ret.val = FALSE

C3_Pure ==
    (ret.op = "calculate_aero_coef" /\ ref.set /\ ref.who = ret.who
     /\ ref.args = ret.args)
        => (ret.val = ref.val /\ ret.exc = ref.exc)

C3_Witness ==
    /\ ret.op = "calculate_aero_coef"
    /\ ref.set /\ ref.other
    /\ ref.args = ret.args
    /\ ret.exc = ""
    /\ rocket["A"].use_fins = TRUE

(* C4 as stated: two Rocket instances are independent, so a call on one    *)
(* rocket leaves what the other one returns from calculate_aero_coef and   *)
(* get_q_damp_fin as it was before the call.  peer holds the other         *)
(* rocket's answers before the last call.                                  *)
C4_Independent == QueryTable(rocket[peer.who], fin) = peer.table

(* C5 as stated: during calculate_aero_coef with fins enabled, no angle    *)
(* handed to Airfoil.get_aero_coef is exactly zero.  ret.trace lists the   *)
(* angles the call handed over.                                            *)
C5_NoZeroAngle ==
    (ret.op = "calculate_aero_coef" /\ rocket[ret.who].use_fins = TRUE)
        => (\A i \in 1..Len(ret.trace) : ret.trace[i] # 0)

(* C6 as stated: update_rocket reports a body with a zero-length segment   *)
(* as an error, and no calculate_aero_coef on such a body either           *)
(* completes with a value or lets an exception escape.                     *)
HasZeroSegment(dim) ==
    \E i \in 1..(Len(dim) - 1) : dim[i + 1][1] = dim[i][1]

C6_ZeroLengthReported ==
    /\ (ret.op = "update_rocket" /\ HasZeroSegment(ret.args[1][6]))
           => (ret.exc # "")
    /\ ~(ret.op = "calculate_aero_coef"
         /\ HasZeroSegment(rocket[ret.who].rocket_dim))

(* The arrays of a rocket that are sized by update_rocket itself.          *)
SizedByUpdate(self, n) ==
    /\ Len(self.station_cross_area) = n
    /\ Len(self.component_cn) = n - 1
    /\ Len(self.component_cn_alpha) = n - 1
    /\ Len(self.component_plan_area) = n - 1
    /\ Len(self.component_volume) = n - 1
    /\ Len(self.component_centroid) = n - 1
    /\ PyLen(self.area_wet_component) = n - 1

(* C7 as stated: once configured with N >= 2 stations, station_cross_area  *)
(* has N entries and every per-segment array, cd_pressure_component        *)
(* included, has N-1 entries, after update_rocket and after every later    *)
(* calculate_aero_coef.                                                    *)
C7_AllSized ==
    \A r \in Rockets :
        (Len(rocket[r].rocket_dim) >= 2)
            => (/\ SizedByUpdate(rocket[r], Len(rocket[r].rocket_dim))
                /\ PyLen(rocket[r].cd_pressure_component)
                       = Len(rocket[r].rocket_dim) - 1)

(* C7 amended: once configured with N >= 2 stations, station_cross_area    *)
(* has N entries and component_cn, component_cn_alpha,                     *)
(* component_plan_area, component_volume, component_centroid and           *)
(* area_wet_component have N-1, after update_rocket and after every later  *)
(* call; cd_pressure_component has N-1 entries after a                     *)
(* calculate_aero_coef that returned, and not before.                      *)
C7_Sized ==
    \A r \in Rockets :
        (Len(rocket[r].rocket_dim) >= 2)
            => (/\ SizedByUpdate(rocket[r], Len(rocket[r].rocket_dim))
                /\ (ret.who = r /\ ret.op = "calculate_aero_coef" /\ ret.exc = "")
                       => (PyLen(rocket[r].cd_pressure_component)
                               = Len(rocket[r].rocket_dim) - 1))

C7_Witness ==
    /\ ret.op = "calculate_aero_coef" /\ ret.exc = ""
    /\ Len(rocket["A"].rocket_dim) = 4
    /\ PyLen(rocket["A"].cd_pressure_component) = 3
    /\ PyLen(rocket["A"].area_wet_component) = 3

(* v is the piecewise-linear interpolation of the curve <<xp, fp>> at x,   *)
(* to within one unit of the scale: fp[1] at or before the first sample,   *)
(* fp[n] at or after the last, and on the chord between the two samples    *)
(* around x otherwise.                                                     *)
OnChord(v, x, x0, x1, f0, f1) ==
    Abs(v * (x1 - x0) - (f0 * (x1 - x0) + (f1 - f0) * (x - x0))) < x1 - x0

IsInterpolation(v, x, xp, fp) ==
    \/ x <= xp[1] /\ v = fp[1]
    \/ x >= xp[Len(xp)] /\ v = fp[Len(xp)]
    \/ \E i \in 1..(Len(xp) - 1) :
           /\ xp[i] <= x /\ x <= xp[i + 1] /\ xp[i] < xp[i + 1]
           /\ OnChord(v, x, xp[i], xp[i + 1], fp[i], fp[i + 1])

SeqMin(s) ==
    CHOOSE m \in {s[i] : i \in 1..Len(s)} : \A i \in 1..Len(s) : m <= s[i]

(* C8.  get_thrust(t, t_launch) on a stored curve returns max(0.001, v),   *)
(* v the piecewise-linear interpolation of the curve at t - t_launch       *)
(* with the end samples outside the table; the value is never below        *)
(* 0.001.                                                                  *)
C8_Thrust ==
    (ret.op = "get_thrust" /\ ret.exc = "")
        => (/\ ret.val >= S \div 1000
            /\ \E v \in {ret.val}
                        \cup (SeqMin(rocket[ret.who].motor[2])..(S \div 1000)) :
                   /\ IsInterpolation(v, ret.args[1] - ret.args[2],
                                      rocket[ret.who].motor[1],
                                      rocket[ret.who].motor[2])
                   /\ ret.val = Max2(S \div 1000, v))

C8_Witness ==
    /\ ret.op = "get_thrust" /\ ret.exc = ""
    /\ rocket["A"].motor = CurveBoost
    /\ ret.args[1] - ret.args[2] > CurveBoost[1][2]
    /\ ret.args[1] - ret.args[2] < CurveBoost[1][3]
    /\ ret.val > S \div 1000

(* C9 as stated: with exactly one of the three airfoil options selected,   *)
(* get_aero_coef returns for every angle, and with use_2pi alone the       *)
(* returned cn_alpha is 2 pi.                                              *)
OneOption(f) ==
    \/ f.use_2pi /\ ~f.use_windtunel /\ ~f.use_windtunnel_modified
    \/ ~f.use_2pi /\ f.use_windtunel /\ ~f.use_windtunnel_modified
    \/ ~f.use_2pi /\ ~f.use_windtunel /\ f.use_windtunnel_modified

C9_OneOptionReturns ==
    (ret.op = "get_aero_coef" /\ OneOption(foil))
        => (/\ ret.exc = ""
            /\ foil.use_2pi => ret.val[3] = 2 * PiS)

(* C10.  get_aero_coef(a) and get_aero_coef(-a) return the same ca and     *)
(* opposite cn, whatever calls were made on the Airfoil in between.        *)
(* foilRef holds an earlier call under the same options.                   *)
C10_Symmetry ==
    (ret.op = "get_aero_coef" /\ ret.exc = "" /\ foilRef.set
     /\ foilRef.aoa = 0 - ret.args)
        => (ret.val[2] = foilRef.ca /\ ret.val[1] = 0 - foilRef.cn)

C10_Witness ==
    /\ ret.op = "get_aero_coef" /\ ret.exc = ""
    /\ foilRef.set
    /\ foilRef.aoa = 0 - ret.args
    /\ ret.args < 0
    /\ ret.val[1] < 0

(* C11.  Whenever the last two calls were Fin.update calls on the same Fin *)
(* with the same four points, one with fin_attached = True and the other   *)
(* with fin_attached = False, in either order, and both returned, the      *)
(* aspect ratio held after the detached update is 0.625 times the aspect   *)
(* ratio held after the attached update.                                   *)
SameFinTwice ==
    /\ ret.op = "Fin.update"
    /\ ret.exc = ""
    /\ ref.set
    /\ ref.call.op = "Fin.update"
    /\ ref.call.exc = ""
    /\ ref.call.args[1] = ret.args[1]
    /\ ref.call.args[2] = ret.args[2]
    /\ ref.call.args[3] # ret.args[3]

ArAttached == IF ret.args[3] THEN fin[ret.args[1]].aspect_ratio
              ELSE ref.fin[ret.args[1]].aspect_ratio
ArDetached == IF ret.args[3] THEN ref.fin[ret.args[1]].aspect_ratio
              ELSE fin[ret.args[1]].aspect_ratio

C11_DetachedRatio ==
    SameFinTwice => ArDetached = MulDiv(ArAttached, 625, 1000)

C11_PositiveArea ==
    (SameFinTwice /\ fin[ret.args[1]].area # 0)
        => ArDetached = MulDiv(ArAttached, 625, 1000)

C11_AttachedFirst ==
    (SameFinTwice /\ ~ret.args[3])
        => ArDetached = MulDiv(ArAttached, 625, 1000)

(* C12.  An assignment by the caller into its list l0, into its list data  *)
(* or into a list it got from Fin.dim changes nothing that the Rocket and  *)
(* the fins store, so no later result either: every stored list is a copy. *)
C12_Copied ==
    [][ret'.op = "assign" => (rocket' = rocket /\ fin' = fin)]_vars

C12_NothingShared ==
    /\ held.rocket_dim["A"] = <<>>
    /\ held.motor["A"] = <<<<>>, <<>>>>
    /\ held.fin = <<<<>>, <<>>>>
    /\ held.view = <<>>

C12_Witness ==
    /\ ret.op = "assign"
    /\ rocket["A"].rocket_dim # <<>>
    /\ rocket["A"].rocket_dim # caller.l0[6]
    /\ fin[1].dim # caller.l0[7]
    /\ rocket["A"].motor[1] # <<>>
    /\ rocket["A"].motor # caller.data
    /\ caller.view # <<>>
    /\ caller.view # fin[1].dim
    /\ caller.view # fin[2].dim

(* C13.  update_rocket returns normally for every body and every centre of *)
(* gravity xcg, also for xcg at or before the first station and at or      *)
(* beyond the last one: no exception escapes from it.                      *)
C13_UpdateReturns ==
    ret.op = "update_rocket" => ret.exc = ""

(* For xcg strictly between the first and the last station it does.        *)
FirstStation(l0) == l0[6][1][1]
LastStation(l0) == l0[6][Len(l0[6])][1]

C13_ReturnsInside ==
    (/\ ret.op = "update_rocket"
     /\ FirstStation(ret.args[1]) < ret.args[2]
     /\ ret.args[2] < LastStation(ret.args[1]))
        => ret.exc = ""

C13_RaisesOutside ==
    (/\ ret.op = "update_rocket"
     /\ \/ ret.args[2] <= FirstStation(ret.args[1])
        \/ ret.args[2] >= LastStation(ret.args[1]))
        => ret.exc \in {"IndexError", "ZeroDivisionError"}

(* C14 as stated: on a cone-cylinder body without fins at a fixed Mach     *)
(* number, CN is non-decreasing in the angle of attack over [0, 90 deg]:   *)
(* of two calls since the last update_rocket, the one with the larger      *)
(* angle returns the larger or an equal CN.                                *)
TwoAngles ==
    /\ ret.op = "calculate_aero_coef"
    /\ ret.exc = ""
    /\ ref.set
    /\ ref.exc = ""
    /\ rocket["A"].use_fins = FALSE
    /\ 0 <= ref.args[1]
    /\ ref.args[1] <= ret.args[1]
    /\ ret.args[1] <= HalfPiS
    /\ ref.args[2] = ret.args[2]

C15_PlanAreaIsSum ==
    (ret.op = "update_rocket" /\ ret.exc = "")
        => rocket[ret.who].plan_area
               = SumSeq(rocket[ret.who].component_plan_area, 1)

(* What update_rocket leaves: the sum is taken at line 458, when every     *)
(* component_plan_area is still the 0 of __initialize.                     *)
C15_PlanAreaZero ==
    (ret.op = "update_rocket" /\ ret.exc = "")
        => (/\ rocket[ret.who].plan_area = 0
            /\ SumSeq(rocket[ret.who].component_plan_area, 1) > 0)

(* C16.  After calculate_aero_coef(aoa, mach = m0) the stored Mach number  *)
(* is m = max(m0, 0.001) and the stored compressibility factor beta is     *)
(* sqrt(1 - m^2), computed from that clamped value.                        *)
C16_BetaFromClamped ==
    ret.op = "calculate_aero_coef"
        => (/\ rocket[ret.who].mach = Max2(ret.args[2], DefaultMach)
            /\ rocket[ret.who].beta
                   = NpSqrt(S - FMul(rocket[ret.who].mach, rocket[ret.who].mach)))

(* What the code stores: sqrt(1 - m0^2) of the argument as it was passed.  *)
C16_BetaFromArgument ==
    ret.op = "calculate_aero_coef"
        => (/\ rocket[ret.who].mach = Max2(ret.args[2], DefaultMach)
            /\ rocket[ret.who].beta
                   = NpSqrt(S - FMul(ret.args[2], ret.args[2])))

(* C17.  Two Fin objects whose last update call had the same points and    *)
(* the same fin_attached hold the same derived quantities, whatever they   *)
(* were updated with before, also for a planform of zero area.  (The       *)
(* fields dim and fin_attached of a Fin are the arguments of its last      *)
(* update.)                                                                *)
Derived(f) ==
    <<f.c_root, f.c_tip, f.x_tail, f.wingspan, f.area, f.aspect_ratio, f.y_mac,
      f.x_force_fin, f.cp_total, f.sb_angle>>

SameLastUpdate ==
    /\ fin[1].dim # <<>>
    /\ fin[1].dim = fin[2].dim
    /\ fin[1].fin_attached = fin[2].fin_attached

C17_DerivedFromLastUpdate ==
    SameLastUpdate => Derived(fin[1]) = Derived(fin[2])

(* It holds for a planform of non-zero area, and in every case for all but *)
(* the aspect ratio and y_mac.                                             *)
C17_PositiveArea ==
    (SameLastUpdate /\ fin[1].area # 0) => Derived(fin[1]) = Derived(fin[2])

C17_AllButTwo ==
    SameLastUpdate
        => [fin[1] EXCEPT !.aspect_ratio = 0, !.y_mac = 0]
               = [fin[2] EXCEPT !.aspect_ratio = 0, !.y_mac = 0]

(* C18.  On one Rocket, every update_rocket returns, and whenever the      *)
(* configuration it last received has no control fins (use_fins or         *)
(* use_fins_control false) the control fin fin[1] holds the substitute     *)
(* planform zero_fin, with positive area and positive aspect ratio, not    *)
(* the planform of an earlier configuration; calculate_aero_coef then      *)
(* returns numbers, no division by zero having occurred.                   *)
NoControlFins(self) == ~(self.use_fins = TRUE /\ self.use_fins_control = TRUE)

Numbers(v) == v # <<>> /\ \A k \in 1..Len(v) : ~IsNaN(v[k])

C18_ZeroFinSubstituted ==
    /\ ret.op = "update_rocket" => ret.exc = ""
    /\ (rocket["A"].q_damp_body # Unset /\ NoControlFins(rocket["A"]))
           => (/\ fin[2].dim = zero_fin
               /\ fin[2].area > 0
               /\ fin[2].aspect_ratio > 0
               /\ ret.op = "calculate_aero_coef"
                      => (ret.exc = "" /\ Numbers(ret.val) /\ ~IsNaN(fin[2].cn_alpha)))

(* The control fin still holds a slope cn_alpha that is not the one of its *)
(* present planform: it was computed for the control fins of an earlier    *)
(* configuration, and the rocket has since been configured with main fins  *)
(* only.                                                                   *)
C18_Witness ==
    /\ ret.op = "update_rocket"
    /\ ret.exc = ""
    /\ ret.args[1] = CfgFins
    /\ NoControlFins(rocket["A"])
    /\ fin[2].dim = zero_fin
    /\ fin[2].cn_alpha # 0
    /\ fin[2].cn_alpha
           # Fin_calculate_cn_alpha(fin[2], fin[2].flat_plate.x, fin[2].beta,
                                    fin[2].mach).cn_alpha

(* C19.  A reset_variables call leaves the pad latch armed and the motor   *)
(* curve empty; it changes neither the fins nor what calculate_aero_coef   *)
(* returns; and while the curve is empty, that is until the next           *)
(* set_motor, burnout_time and get_thrust raise instead of returning.      *)
NoCurve == <<<<>>, <<>>>>

AeroAnswer(self, f) ==
    QueryRow(AeroCall(Ctx(self, f), AoaStep, DefaultMach, 0), 0)

C19_ResetStep ==
    ret'.op = "reset_variables"
        => (/\ rocket'["A"].is_in_the_pad_flag = TRUE
            /\ rocket'["A"].motor = NoCurve
            /\ rocket'["A"].rocket_dim = rocket["A"].rocket_dim
            /\ fin' = fin
            /\ AeroAnswer(rocket'["A"], fin') = AeroAnswer(rocket["A"], fin)
            /\ Rocket_burnout_time(rocket'["A"]).exc = "IndexError"
            /\ Rocket_get_thrust(rocket'["A"], 2 * TimeStep, 0).exc = "ValueError")

C19_NoCurveStep ==
    rocket["A"].motor = NoCurve
        => (/\ ret'.op # "set_motor" => rocket'["A"].motor = NoCurve
            /\ ret'.op \in {"burnout_time", "get_thrust"} => ret'.exc # "")

C19_ResetClearsMotorKeepsGeometry ==
    [][C19_ResetStep /\ C19_NoCurveStep]_vars

(* A rocket that has been configured, queried and then reset (its latch    *)
(* history is fresh although it was configured) is asked for its thrust    *)
(* and raises.                                                             *)
C19_Witness ==
    /\ ret.op = "get_thrust"
    /\ ret.exc = "ValueError"
    /\ rocket["A"].q_damp_body # Unset
    /\ rocket["A"].cp # 0
    /\ pad["A"] = PadFresh
    /\ rocket["A"].is_in_the_pad_flag = TRUE

============================================================================
